---- MODULE Spec2Model ----
(***************************************************************************)
(* The workflow execution engine of batata-rpa: the Runtime coordinator    *)
(* (engine/runtime.rs), the recursive graph walker (engine/executor.rs)    *)
(* and the host commands that reach a running Executor                     *)
(* (commands/execution.rs).                                                *)
(*                                                                         *)
(* The walker's recursion is an explicit stack of frames, one frame per    *)
(* invocation of execute_from_node.  Every acquisition of the runtime's    *)
(* state lock by execute_from_node is one step, so the host's calls        *)
(* interleave with the walker wherever its task can be suspended.          *)
(***************************************************************************)
EXTENDS Integers, Sequences, FiniteSets

\* ------------------------------------------------------------------ bounds

\* The largest maxRetries a tryCatch node of the checked graphs carries.
MaxRetries == 1

\* The count of the checked count-loop node.
LoopCount == 2

\* The number of state-changing host calls (pause, resume, step, breakpoint
\* edits) issued against one execution.
MaxHostCalls == 2

\* ------------------------------------------------------- values and options

\* Option::None of a node id.
None == "none"

\* A String is the tuple of its pieces; Option<String>::None and a variable
\* that is not in the store are the empty tuple.
NoString == << >>

\* VariableValue
Number(n) == << "Number", n >>
String(s) == << "String", s >>

\* ExecutionStatus.
Idle == "Idle"
Running == "Running"
Paused == "Paused"
Completed == "Completed"
Failed == "Failed"
ExecutionStatus == {Idle, Running, Paused, Completed, Failed}

\* DebugMode.
ModeNone == "None"
StepByStep == "StepByStep"
Breakpoint == "Breakpoint"
DebugMode == {ModeNone, StepByStep, Breakpoint}

\* EngineError values and their Display strings (thiserror's #[error]).
InvalidWorkflow(msg) == [kind |-> "InvalidWorkflow", msg |-> msg]
ExecutionFailed(msg) == [kind |-> "ExecutionFailed", msg |-> msg]

ErrorPrefix(kind) ==
    CASE kind = "InvalidWorkflow" -> "Invalid workflow: "
      [] kind = "ExecutionFailed" -> "Execution failed: "
      [] OTHER -> "Execution error: "

\* e.to_string(): the Display prefix of the kind followed by the message.
ToString(e) == << ErrorPrefix(e.kind) >> \o e.msg

\* An EngineResult: Ok(()) or Err(e).
NoError == [kind |-> "none", msg |-> << >>]
Ok == [ok |-> TRUE, e |-> NoError]
Err(e) == [ok |-> FALSE, e |-> e]

\* An ExecutionLog entry, reduced to its level, its message kind and its node
\* id: ExecutionLog::info, ::warn and ::error.
Log(msg) == [msg |-> msg, node |-> None, level |-> "Info"]
Warn(msg) == [msg |-> msg, node |-> None, level |-> "Warn"]
ErrorLog(msg) == [msg |-> msg, node |-> None, level |-> "Error"]
WithNode(l, id) == [l EXCEPT !.node = id]

\* --------------------------------------------------- strings and variables
\* A string is the sequence of its symbols.  "$", "{", "}", "[", "]", ",",
\* " " and the digits are characters; every other symbol (a variable's name,
\* a word such as "true", a message) is a piece of text that holds none of
\* these characters.

Digits == << "0", "1", "2", "3", "4", "5", "6", "7", "8", "9" >>

IsDigit(c) == \E i \in 1..Len(Digits) : Digits[i] = c
DigitValue(c) == (CHOOSE i \in 1..Len(Digits) : Digits[i] = c) - 1

\* f64::to_string of a non-negative whole number.
RECURSIVE NumberToString(_)
NumberToString(n) ==
    IF n < Len(Digits) THEN << Digits[n + 1] >>
    ELSE NumberToString(n \div Len(Digits)) \o << Digits[(n % Len(Digits)) + 1] >>

\* str::parse::<f64> on the strings of the alphabet: a non-empty run of
\* digits is Ok (<< n >>), anything else is Err (<< >>).
RECURSIVE DecimalValue(_)
DecimalValue(s) ==
    IF s = << >> THEN 0
    ELSE DecimalValue(SubSeq(s, 1, Len(s) - 1)) * Len(Digits)
            + DigitValue(s[Len(s)])

ParseF64(s) ==
    IF s # << >> /\ \A i \in 1..Len(s) : IsDigit(s[i])
    THEN << DecimalValue(s) >> ELSE << >>

\* The other VariableValue variants (Dict is not modelled).
Null == << "Null" >>
Bool(b) == << "Bool", b >>
List(l) == << "List", l >>

\* serde_json::to_string of a VariableValue (untagged): a Number is an f64
\* and is written with its fraction.
RECURSIVE ToJson(_)
RECURSIVE JoinJson(_)
JoinJson(l) ==
    IF l = << >> THEN << >>
    ELSE IF Len(l) = 1 THEN ToJson(l[1])
    ELSE ToJson(l[1]) \o << "," >> \o JoinJson(Tail(l))

ToJson(v) ==
    CASE v[1] = "Null" -> << "null" >>
      [] v[1] = "Bool" -> IF v[2] THEN << "true" >> ELSE << "false" >>
      [] v[1] = "Number" -> NumberToString(v[2]) \o << ".", "0" >>
      [] v[1] = "String" -> << "\"" >> \o v[2] \o << "\"" >>
      [] v[1] = "List" -> << "[" >> \o JoinJson(v[2]) \o << "]" >>

\* VariableValue::to_string_value
to_string_value(v) ==
    CASE v[1] = "Null" -> << "null" >>
      [] v[1] = "Bool" -> IF v[2] THEN << "true" >> ELSE << "false" >>
      [] v[1] = "Number" -> NumberToString(v[2])
      [] v[1] = "String" -> v[2]
      [] v[1] = "List" -> ToJson(v)

\* serde_json::from_str::<VariableValue> on the strings of the alphabet: a
\* number, true, false, null, or a list of numbers; anything else is Err
\* (<< >>).
RECURSIVE ParseJsonItems(_)
ParseJsonItems(s) ==
    IF s = << >> THEN << >>
    ELSE LET C == {i \in 1..Len(s) : s[i] = ","}
             e == IF C = {} THEN Len(s) + 1
                  ELSE CHOOSE i \in C : \A j \in C : i <= j
             item == ParseF64(SubSeq(s, 1, e - 1))
             rest == ParseJsonItems(SubSeq(s, e + 1, Len(s)))
         IN  IF item = << >> \/ e = Len(s) \/ (rest = << >> /\ e < Len(s))
             THEN << >>
             ELSE << Number(item[1]) >> \o rest

ParseJson(s) ==
    CASE s = << "true" >> -> << Bool(TRUE) >>
      [] s = << "false" >> -> << Bool(FALSE) >>
      [] s = << "null" >> -> << Null >>
      [] ParseF64(s) # << >> -> << Number(ParseF64(s)[1]) >>
      [] Len(s) >= 2 /\ s[1] = "[" /\ s[Len(s)] = "]" ->
            LET inner == SubSeq(s, 2, Len(s) - 1)
            IN  IF inner = << >> THEN << List(<< >>) >>
                ELSE IF ParseJsonItems(inner) = << >> THEN << >>
                ELSE << List(ParseJsonItems(inner)) >>
      [] OTHER -> << >>

\* str::to_lowercase and str::trim on the strings of the alphabet.
LowerCase(c) ==
    CASE c = "TRUE" -> "true"
      [] c = "YES" -> "yes"
      [] OTHER -> c

to_lowercase(s) == [i \in 1..Len(s) |-> LowerCase(s[i])]

RECURSIVE trim(_)
trim(s) ==
    IF s # << >> /\ s[1] = " " THEN trim(Tail(s))
    ELSE IF s # << >> /\ s[Len(s)] = " " THEN trim(SubSeq(s, 1, Len(s) - 1))
    ELSE s

\* format!("${{{}}}", name)
Placeholder(name) == << "$", "{", name, "}" >>

\* pat occurs in s at position i.
MatchesAt(s, pat, i) ==
    /\ i + Len(pat) - 1 <= Len(s)
    /\ \A j \in 1..Len(pat) : s[i + j - 1] = pat[j]

\* str::replace(pat, to) for a non-empty pattern: the non-overlapping
\* matches from the left; what is put in is not scanned again.
RECURSIVE ReplaceFrom(_, _, _, _)
ReplaceFrom(s, pat, to, i) ==
    IF i > Len(s) THEN << >>
    ELSE IF MatchesAt(s, pat, i)
         THEN to \o ReplaceFrom(s, pat, to, i + Len(pat))
         ELSE << s[i] >> \o ReplaceFrom(s, pat, to, i + 1)

replace(s, pat, to) == ReplaceFrom(s, pat, to, 1)

\* str::contains
contains(s, pat) == \E i \in 1..(Len(s) + 1) : MatchesAt(s, pat, i)

\* The names the store holds.
Names(vs) == {name \in DOMAIN vs : vs[name] # NoString}

\* The orders in which `for (name, var) in &self.variables` can go through
\* a HashMap holding the names S: the order is not specified and depends on
\* the map's hasher keys, which differ from one map to the next.
RECURSIVE IterationOrders(_)
IterationOrders(S) ==
    IF S = {} THEN {<< >>}
    ELSE UNION {{<< x >> \o o : o \in IterationOrders(S \ {x})} : x \in S}

\* VariableStore::interpolate, the map iterated in the order `order`.
RECURSIVE interpolate(_, _, _)
interpolate(vs, order, text) ==
    IF order = << >> THEN text
    ELSE interpolate(vs, Tail(order),
                     replace(text, Placeholder(Head(order)),
                             to_string_value(vs[Head(order)])))

\* ------------------------------------------------------------ graph model

\* The keys of WorkflowNode.data the modelled handlers read.
DataKeys ==
    {"loopType", "condition", "operator", "leftOperand", "rightOperand",
     "variableName", "value", "valueType", "listVariable"}

\* WorkflowNode.data: each key absent (<< >>) or present with a string value
\* (<< s >>).  The numeric count / maxRetries entry is the node's field n.
Data(d) == [k \in DataKeys |-> IF k \in DOMAIN d THEN << d[k] >> ELSE << >>]

\* node.data.get(key).and_then(|v| v.as_str()).unwrap_or(default)
Get(node, key, default) ==
    IF node.data[key] = << >> THEN default ELSE node.data[key][1]

WfNode(id, type, n) == [id |-> id, type |-> type, n |-> n, data |-> Data(<< >>)]
WfNodeData(id, type, d) == [id |-> id, type |-> type, n |-> 0, data |-> Data(d)]
WfEdge(s, t, h) == [source |-> s, target |-> t, handle |-> h]

\* start -> a(log) -> b(end)
LinearWorkflow ==
    [nodes |-> << WfNode("s", "start", 0), WfNode("a", "log", 0),
                  WfNode("b", "end", 0) >>,
     edges |-> << WfEdge("s", "a", None), WfEdge("a", "b", None) >>]

\* a graph without a start node
NoStartWorkflow ==
    [nodes |-> << WfNode("a", "log", 0), WfNode("b", "end", 0) >>,
     edges |-> << WfEdge("a", "b", None) >>]

\* start -> a, a -> zz (no such node), a -> b
DanglingWorkflow ==
    [nodes |-> << WfNode("s", "start", 0), WfNode("a", "log", 0),
                  WfNode("b", "end", 0) >>,
     edges |-> << WfEdge("s", "a", None), WfEdge("a", "zz", None),
                  WfEdge("a", "b", None) >>]

\* start -> t(tryCatch, maxRetries n) -[try]-> f(readFile)
\*                                    -[catch]-> c(readFile)
\*                                    -[finally]-> y(log)
TryWorkflow(n) ==
    [nodes |-> << WfNode("s", "start", 0), WfNode("t", "tryCatch", n),
                  WfNode("f", "readFile", 0), WfNode("c", "readFile", 0),
                  WfNode("y", "log", 0) >>,
     edges |-> << WfEdge("s", "t", None), WfEdge("t", "f", "try"),
                  WfEdge("t", "c", "catch"), WfEdge("t", "y", "finally") >>]

\* start -> l(loop count) -[body]-> x(readFile), -[done]-> d(log); start -> e
LoopWorkflow ==
    [nodes |-> << WfNode("s", "start", 0), WfNode("l", "loop", LoopCount),
                  WfNode("x", "readFile", 0), WfNode("d", "log", 0),
                  WfNode("e", "end", 0) >>,
     edges |-> << WfEdge("s", "l", None), WfEdge("l", "x", "body"),
                  WfEdge("l", "d", "done"), WfEdge("s", "e", None) >>]

\* start -> a(log), start -> b(log), a -> c(log)
BranchWorkflow ==
    [nodes |-> << WfNode("s", "start", 0), WfNode("a", "log", 0),
                  WfNode("b", "log", 0), WfNode("c", "log", 0) >>,
     edges |-> << WfEdge("s", "a", None), WfEdge("s", "b", None),
                  WfEdge("a", "c", None) >>]

\* start -> a(log), a -[out]-> h(log), a -> b(log)
HandleWorkflow ==
    [nodes |-> << WfNode("s", "start", 0), WfNode("a", "log", 0),
                  WfNode("h", "log", 0), WfNode("b", "log", 0) >>,
     edges |-> << WfEdge("s", "a", None), WfEdge("a", "h", "out"),
                  WfEdge("a", "b", None) >>]

\* start -> a(log), start -> b(log), a -> d(log), b -> d
DiamondWorkflow ==
    [nodes |-> << WfNode("s", "start", 0), WfNode("a", "log", 0),
                  WfNode("b", "log", 0), WfNode("d", "log", 0) >>,
     edges |-> << WfEdge("s", "a", None), WfEdge("s", "b", None),
                  WfEdge("a", "d", None), WfEdge("b", "d", None) >>]

\* start -> v(flag := "true") -> w(while "${flag}")
\*   -[body]-> u(flag := "0"), -[done]-> d(log)
WhileFlagWorkflow ==
    [nodes |-> << WfNode("s", "start", 0),
                  WfNodeData("v", "setVariable",
                      [variableName |-> << "flag" >>, value |-> << "true" >>]),
                  WfNodeData("w", "loop",
                      [loopType |-> << "while" >>,
                       condition |-> Placeholder("flag")]),
                  WfNodeData("u", "setVariable",
                      [variableName |-> << "flag" >>, value |-> << "0" >>]),
                  WfNode("d", "log", 0) >>,
     edges |-> << WfEdge("s", "v", None), WfEdge("v", "w", None),
                  WfEdge("w", "u", "body"), WfEdge("w", "d", "done") >>]

\* start -> w(while "true") -[done]-> d(log); the loop's body is empty
WhileTrueWorkflow ==
    [nodes |-> << WfNode("s", "start", 0),
                  WfNodeData("w", "loop",
                      [loopType |-> << "while" >>, condition |-> << "true" >>]),
                  WfNode("d", "log", 0) >>,
     edges |-> << WfEdge("s", "w", None), WfEdge("w", "d", "done") >>]

\* The JSON text of the list [1, .., k].
RECURSIVE ListItemsText(_)
ListItemsText(k) ==
    IF k = 0 THEN << >>
    ELSE IF k = 1 THEN NumberToString(1)
    ELSE ListItemsText(k - 1) \o << "," >> \o NumberToString(k)

ListText(k) == << "[" >> \o ListItemsText(k) \o << "]" >>

\* start -> v(list := value as valueType) -> e(forEach list)
\*   -[body]-> a(log), -[done]-> d(log)
ForEachWorkflow(value, valueType) ==
    [nodes |-> << WfNode("s", "start", 0),
                  WfNodeData("v", "setVariable",
                      [variableName |-> << "list" >>, value |-> value,
                       valueType |-> valueType]),
                  WfNodeData("e", "forEach", [listVariable |-> << "list" >>]),
                  WfNode("a", "log", 0), WfNode("d", "log", 0) >>,
     edges |-> << WfEdge("s", "v", None), WfEdge("v", "e", None),
                  WfEdge("e", "d", "done"), WfEdge("e", "a", "body") >>]

\* start -> v(list := [1, .., k]) -> e(forEach list)
\*   -[body]-> w(list := []) -> u(item := "x") -> a(log), -[done]-> d(log)
ForEachOverwriteWorkflow(k) ==
    [nodes |-> << WfNode("s", "start", 0),
                  WfNodeData("v", "setVariable",
                      [variableName |-> << "list" >>, value |-> ListText(k),
                       valueType |-> << "json" >>]),
                  WfNodeData("e", "forEach", [listVariable |-> << "list" >>]),
                  WfNodeData("w", "setVariable",
                      [variableName |-> << "list" >>, value |-> ListText(0),
                       valueType |-> << "json" >>]),
                  WfNodeData("u", "setVariable",
                      [variableName |-> << "item" >>, value |-> << "x" >>]),
                  WfNode("a", "log", 0), WfNode("d", "log", 0) >>,
     edges |-> << WfEdge("s", "v", None), WfEdge("v", "e", None),
                  WfEdge("e", "w", "body"), WfEdge("w", "u", None),
                  WfEdge("u", "a", None), WfEdge("e", "d", "done") >>]

\* start -> e(forEach list) -[body]-> a(log), -[done]-> d(log): no variable
\* named list is ever set
ForEachMissingWorkflow ==
    [nodes |-> << WfNode("s", "start", 0),
                  WfNodeData("e", "forEach", [listVariable |-> << "list" >>]),
                  WfNode("a", "log", 0), WfNode("d", "log", 0) >>,
     edges |-> << WfEdge("s", "e", None), WfEdge("e", "a", "body"),
                  WfEdge("e", "d", "done") >>]

\* start -> q(condition left op right) -[true]-> a(log), -[false]-> b(log),
\*   q -> c(log) without a handle, q -[true]-> d(log)
ConditionWorkflow(op, left, right) ==
    [nodes |-> << WfNode("s", "start", 0),
                  WfNodeData("q", "condition",
                      [operator |-> op, leftOperand |-> left,
                       rightOperand |-> right]),
                  WfNode("a", "log", 0), WfNode("b", "log", 0),
                  WfNode("c", "log", 0), WfNode("d", "log", 0) >>,
     edges |-> << WfEdge("s", "q", None), WfEdge("q", "c", None),
                  WfEdge("q", "b", "false"), WfEdge("q", "a", "true"),
                  WfEdge("q", "d", "true") >>]

\* start -> v1(a := "${b}") -> v2(b := "x") -> v3(c := "${a}")
\*   -> q(condition "${a}" == "x") -[true]-> a(log), -[false]-> b(log)
InterpolateWorkflow ==
    [nodes |-> << WfNode("s", "start", 0),
                  WfNodeData("v1", "setVariable",
                      [variableName |-> << "a" >>, value |-> Placeholder("b")]),
                  WfNodeData("v2", "setVariable",
                      [variableName |-> << "b" >>, value |-> << "x" >>]),
                  WfNodeData("v3", "setVariable",
                      [variableName |-> << "c" >>, value |-> Placeholder("a")]),
                  WfNodeData("q", "condition",
                      [operator |-> << "==" >>, leftOperand |-> Placeholder("a"),
                       rightOperand |-> << "x" >>]),
                  WfNode("a", "log", 0), WfNode("b", "log", 0) >>,
     edges |-> << WfEdge("s", "v1", None), WfEdge("v1", "v2", None),
                  WfEdge("v2", "v3", None), WfEdge("v3", "q", None),
                  WfEdge("q", "a", "true"), WfEdge("q", "b", "false") >>]

\* The node types the plugins loaded at startup have registered
\* (PluginRegistry.node_to_plugin).
RegisteredNodeTypes == {"pluginNode"}

\* start -> u(a type nobody knows) -> p(a plugin's type) -> b(end)
PluginWorkflow ==
    [nodes |-> << WfNode("s", "start", 0), WfNode("u", "mystery", 0),
                  WfNode("p", "pluginNode", 0), WfNode("b", "end", 0) >>,
     edges |-> << WfEdge("s", "u", None), WfEdge("u", "p", None),
                  WfEdge("p", "b", None) >>]

\* The length of the list the checked forEach node goes through.
ListLength == 2

Workflows ==
    {LinearWorkflow, NoStartWorkflow, DanglingWorkflow, LoopWorkflow,
     BranchWorkflow, WhileFlagWorkflow, ForEachMissingWorkflow,
     ForEachWorkflow(ListText(ListLength), << "json" >>),
     ForEachWorkflow(<< "1" >>, << "number" >>),
     ConditionWorkflow(<< "<" >>, << "2" >>, << "1", "0" >>),
     ConditionWorkflow(<< "contains" >>, << "x" >>, << "y" >>),
     InterpolateWorkflow, PluginWorkflow, HandleWorkflow, DiamondWorkflow,
     ForEachOverwriteWorkflow(ListLength)}
        \cup {TryWorkflow(n) : n \in 0..MaxRetries}

NodeIds(w) == {w.nodes[i].id : i \in 1..Len(w.nodes)}

\* Workflow::find_start_node: the id of the first node of type start.
FindStartNode(w) ==
    LET S == {i \in 1..Len(w.nodes) : w.nodes[i].type = "start"}
    IN  IF S = {} THEN None
        ELSE w.nodes[CHOOSE i \in S : \A j \in S : i <= j].id

\* Workflow::find_node: the first node with the id (the graph's ids are unique).
FindNode(w, id) ==
    LET S == {i \in 1..Len(w.nodes) : w.nodes[i].id = id}
    IN  IF S = {} THEN None
        ELSE w.nodes[CHOOSE i \in S : \A j \in S : i <= j]

Targets(es) == [i \in 1..Len(es) |-> es[i].target]

\* The filter_map of find_next_nodes: an edge whose target is no node yields
\* nothing.
FilterMapFindNode(w, ts) == SelectSeq(ts, LAMBDA t : t \in NodeIds(w))

\* Workflow::find_next_nodes: the targets of every edge leaving the node, in
\* declaration order (the edge's handle is not looked at).
FindNextNodes(w, id) ==
    FilterMapFindNode(w, Targets(SelectSeq(w.edges, LAMBDA e : e.source = id)))

\* find_next_nodes_by_handle in a variant that does not look at the handle.
FindNextNodesIgnoringHandle(w, id, h) == FindNextNodes(w, id)

\* Workflow::find_next_nodes_by_handle.
FindNextNodesByHandle(w, id, h) ==
    FilterMapFindNode(w,
        Targets(SelectSeq(w.edges,
                          LAMBDA e : e.source = id /\ e.handle # None
                                     /\ e.handle = h)))

\* ------------------------------------------------------------ the recorder

\* RecordingState: Idle, Recording, Paused (Idle and Paused are spelled as
\* the ExecutionStatus values of the same names).
Recording == "Recording"
RecordingState == {Idle, Recording, Paused}

\* RecordingSession::new, without the id, which no operation writes.
\* started_at and ended_at are Option<String>: << >> or << t >>.
NewSession(name) ==
    [name |-> name, state |-> Idle, actions |-> << >>,
     started_at |-> << >>, ended_at |-> << >>]

\* linux::EventMonitor::new past the spawn of xinput: the flag `enabled` is
\* set, and the reader thread reads the lines of xinput's stdout.
NewEventMonitor == [enabled |-> TRUE, thread |-> "reading"]

\* Recorder::new: the session "Untitled" and no event monitor. With it, the
\* time of the clock that start and stop read, the last operation's return
\* value (<< >> before the first), and as history the state the session was
\* in at each input event since the session's actions were last cleared.
NewRecorder ==
    [session |-> NewSession("Untitled"), event_monitor |-> << >>,
     now |-> 0, returned |-> << >>, occurred |-> << >>]

\* --------------------------------------------------------------- the state

VARIABLES
    workflow,   \* Executor.workflow, immutable
    state,      \* Runtime.state: the RuntimeState with its DebugState
    variables,  \* Runtime.variables: name -> value (NoString: absent)
    epc,        \* where the task spawned for execute/execute_debug is
    result,     \* what execute/execute_debug returned: << >> until it
                \* returns, then << r >>
    stack,      \* the execute_from_node invocations in progress
    startMode,  \* history: the mode the run was started in
    trace,      \* history: handler runs and tryCatch phases, in order
    call,       \* a call of one of the engine's pure functions on its own:
                \* the arguments, and the value once it has returned
    executors,  \* ExecutorState.executors: the ids the table holds
    files,      \* the plugin directory: its entries in read_dir's order
    registry,   \* PluginRegistry: its three maps
    tasks,      \* the calls in progress on the registry and the plugins,
                \* each with its arguments, its place and its result
    recorder    \* the Recorder: its session and its event monitor

vars ==
    << workflow, recorder, state, variables, epc, result, stack, startMode, trace, call,
       executors, files, registry, tasks >>

\* No function is being called on its own.
NoCall == [fn |-> "none", text |-> << >>, order |-> << >>, out |-> << >>]

\* workflow.id, the key of the Executor in ExecutorState.executors.
WorkflowId == "wf"

\* The names of the plugins and the node types they define.
PluginNames == {"P", "Q"}

PluginNodeTypes == {"t1", "t2"}

\* PluginRegistry::new: three empty maps.  A key a map does not hold has
\* the value << >>, a key it holds the value << v >>.
NewRegistry ==
    [plugins |-> [name \in PluginNames |-> << >>],
     node_to_plugin |-> [type \in PluginNodeTypes |-> << >>],
     node_defs |-> [type \in PluginNodeTypes |-> << >>]]

VarNames ==
    {"index", "error", "fileContent", "item", "variable", "list", "flag",
     "a", "b", "c"}

\* The messages of the entries the host's calls append to RuntimeState.logs.
HostLogs ==
    {"Workflow execution paused", "Workflow execution resumed",
     "Step execution", "Breakpoint added", "Breakpoint removed",
     "All breakpoints cleared"}

\* RuntimeState::new with DebugState::default.  RuntimeState.logs is kept as
\* two projections of the Vec: `logs`, the entries the workflow's task
\* appended, in order, and `host_logs`, the number of entries of each kind
\* the host's calls appended; the place of a host call's entry among the
\* task's entries is not kept.
NewRuntimeState ==
    [status |-> Idle, current_node_id |-> None, logs |-> << >>,
     host_logs |-> [m \in HostLogs |-> 0],
     error |-> NoString, mode |-> ModeNone, breakpoints |-> {},
     step_pending |-> FALSE, paused_at_node |-> None]

\* Executor::new with Runtime::new and VariableStore::new; the Executor is
\* in the executor table and its task has been spawned and has not run yet.
Init ==
    /\ workflow \in Workflows
    /\ recorder = NewRecorder
    /\ state = NewRuntimeState
    /\ variables = [v \in VarNames |-> NoString]
    /\ epc = "spawned"
    /\ result = << >>
    /\ stack = << >>
    /\ startMode = None
    /\ trace = << >>
    /\ call = NoCall
    /\ executors = {WorkflowId}
    /\ files = << >>
    /\ registry = NewRegistry
    /\ tasks = << >>

\* ------------------------------------------------- the Runtime coordinator
\* Each method takes the state lock once: a function from the RuntimeState
\* it finds to the one it leaves.

\* logs.push(ExecutionLog::info(msg)) in a method the host calls
HostLog(s, msg) == [s.host_logs EXCEPT ![msg] = @ + 1]

\* Runtime::add_log
add_log(s, l) == [s EXCEPT !.logs = Append(s.logs, l)]

\* Runtime::start
start(s) ==
    [s EXCEPT !.status = Running,
              !.logs = Append(s.logs, Log("Workflow execution started"))]

\* Runtime::start_debug
start_debug(s, m) ==
    [s EXCEPT !.status = Running,
              !.mode = m,
              !.step_pending = (m = StepByStep),
              !.logs = Append(s.logs, Log("Debug execution started"))]

\* Runtime::pause
pause(s) ==
    [s EXCEPT !.status = Paused,
              !.host_logs = HostLog(s, "Workflow execution paused")]

\* Runtime::resume
resume(s) ==
    [s EXCEPT !.status = Running,
              !.step_pending = FALSE,
              !.paused_at_node = None,
              !.host_logs = HostLog(s, "Workflow execution resumed")]

\* step in a variant without the check of the status.
step_in_any_status(s) ==
    [s EXCEPT !.status = Running,
              !.step_pending = TRUE,
              !.paused_at_node = None,
              !.host_logs = HostLog(s, "Step execution")]

\* Runtime::step
step(s) ==
    IF s.status = Paused
    THEN [s EXCEPT !.status = Running,
                   !.step_pending = TRUE,
                   !.paused_at_node = None,
                   !.host_logs = HostLog(s, "Step execution")]
    ELSE s

\* complete in a variant that leaves the debug mode as it is.
complete_keeping_mode(s) ==
    [s EXCEPT !.status = Completed,
              !.logs = Append(s.logs, Log("Workflow execution completed"))]

\* Runtime::complete
complete(s) ==
    [s EXCEPT !.status = Completed,
              !.mode = ModeNone,
              !.logs = Append(s.logs, Log("Workflow execution completed"))]

\* Runtime::fail
fail(s, e) ==
    [s EXCEPT !.status = Failed,
              !.error = e,
              !.mode = ModeNone,
              !.logs = Append(s.logs, ErrorLog("Workflow execution failed"))]

\* Runtime::set_current_node
set_current_node(s, id) == [s EXCEPT !.current_node_id = id]

\* Runtime::add_breakpoint
add_breakpoint(s, id) ==
    [s EXCEPT !.breakpoints = s.breakpoints \cup {id},
              !.host_logs = HostLog(s, "Breakpoint added")]

\* Runtime::remove_breakpoint
remove_breakpoint(s, id) ==
    [s EXCEPT !.breakpoints = s.breakpoints \ {id},
              !.host_logs = HostLog(s, "Breakpoint removed")]

\* Runtime::clear_breakpoints
clear_breakpoints(s) ==
    [s EXCEPT !.breakpoints = {},
              !.host_logs = HostLog(s, "All breakpoints cleared")]

\* should_pause_at_node in a variant that looks at the breakpoints in every
\* debug mode.
should_pause_at_node_in_any_mode(s, id) ==
    s.mode = StepByStep \/ id \in s.breakpoints

\* Runtime::should_pause_at_node
should_pause_at_node(s, id) ==
    CASE s.mode = ModeNone -> FALSE
      [] s.mode = StepByStep -> TRUE
      [] s.mode = Breakpoint -> id \in s.breakpoints

\* Runtime::pause_at_node
pause_at_node(s, id) ==
    [s EXCEPT !.status = Paused,
              !.paused_at_node = id,
              !.logs = Append(s.logs, WithNode(Log("Paused at node"), id))]

\* Runtime::wait_for_step returns from the read that finds the status not
\* Paused or the step latch set; any other read sleeps and reads again.
wait_for_step(s) == s.status # Paused \/ s.step_pending

\* Runtime::set_variable (VariableStore::set inserts or overwrites).
set_variable(vs, name, value) == [vs EXCEPT ![name] = value]

\* ---------------------------------------------------------- host commands
\* commands/execution.rs: each command looks the Executor up by workflow id
\* and calls the Executor method, which forwards to the Runtime.  The
\* Executor is in the table from before its task is spawned.

RECURSIVE Sum(_, _)
Sum(f, S) == IF S = {} THEN 0
             ELSE LET x == CHOOSE y \in S : TRUE IN f[x] + Sum(f, S \ {x})

\* The host calls that changed the state so far: each one left a log entry.
HostCalls == Sum(state.host_logs, HostLogs)

HostMayCall == HostCalls < MaxHostCalls

\* `if let Some(executor) = executors.get(&workflow_id)`: the command finds
\* the Executor in the table.
ExecutionFound == WorkflowId \in executors

\* The node ids the debugger's user sets and removes breakpoints on.
BreakpointIds(w) == NodeIds(w) \cap {"a", "b", "x", "f"}

executorState ==
    << workflow, recorder, call, executors, files, registry, tasks, variables, epc, result, stack, startMode, trace >>

\* pause_execution
pause_execution ==
    /\ HostMayCall
    /\ ExecutionFound
    /\ state' = pause(state)
    /\ UNCHANGED executorState

\* resume_execution
resume_execution ==
    /\ HostMayCall
    /\ ExecutionFound
    /\ state' = resume(state)
    /\ UNCHANGED executorState

\* step_execution
step_execution ==
    /\ HostMayCall
    /\ ExecutionFound
    /\ state' = step(state)
    /\ UNCHANGED executorState

\* add_breakpoint (the command)
add_breakpoint_command ==
    /\ HostMayCall
    /\ ExecutionFound
    /\ \E id \in BreakpointIds(workflow) : state' = add_breakpoint(state, id)
    /\ UNCHANGED executorState

\* remove_breakpoint (the command)
remove_breakpoint_command ==
    /\ HostMayCall
    /\ ExecutionFound
    /\ \E id \in BreakpointIds(workflow) : state' = remove_breakpoint(state, id)
    /\ UNCHANGED executorState

\* clear_breakpoints (the command)
clear_breakpoints_command ==
    /\ HostMayCall
    /\ ExecutionFound
    /\ state' = clear_breakpoints(state)
    /\ UNCHANGED executorState

Host ==
    \/ pause_execution
    \/ resume_execution
    \/ step_execution
    \/ add_breakpoint_command
    \/ remove_breakpoint_command
    \/ clear_breakpoints_command

\* ------------------------------------------------------------ the Executor
\* A frame is one invocation of execute_from_node: the node, the place in
\* the code, the index k of the next sibling in the list being walked, the
\* iteration or attempt number, tryCatch's last_error, the value of
\* should_pause_at_node, and the result once the invocation returns (pc
\* "return").
\* `branch` is the handle a condition node chose and `items` the clone of
\* the list a forEach node goes through.
\* `released` is history: the number of resume and step calls the host had
\* made when this invocation called pause_at_node.

Frame(id) ==
    [node |-> id, pc |-> "get_status", k |-> 1, it |-> 0, last_error |-> NoString,
     hit |-> FALSE, released |-> 0, res |-> Ok, branch |-> "false",
     items |-> << >>]

\* The resume() and effective step() calls so far.
Releases ==
    state.host_logs["Workflow execution resumed"]
        + state.host_logs["Step execution"]

Top == stack[Len(stack)]
SetTop(f) == [stack EXCEPT ![Len(stack)] = f]
Push(f, child) == Append(SetTop(f), child)
Pop == SubSeq(stack, 1, Len(stack) - 1)
At(pc) == epc = "running" /\ stack # << >> /\ Top.pc = pc
TopNode == FindNode(workflow, Top.node)

Event(ev, id) == [ev |-> ev, node |-> id]

ControlFlowTypes == {"condition", "loop", "forEach", "tryCatch"}

\* Executor::execute, up to the first await: runtime.start()
execute ==
    /\ epc = "spawned"
    /\ state' = start(state)
    /\ epc' = "find_start_node"
    /\ startMode' = ModeNone
    /\ UNCHANGED << workflow, recorder, call, executors, files, registry, tasks, variables, result, stack, trace >>

\* Executor::execute_debug, up to the first await: runtime.start_debug(mode)
execute_debug ==
    /\ epc = "spawned"
    /\ \E m \in DebugMode :
          /\ state' = start_debug(state, m)
          /\ startMode' = m
    /\ epc' = "find_start_node"
    /\ UNCHANGED << workflow, recorder, call, executors, files, registry, tasks, variables, result, stack, trace >>

\* Executor::execute / execute_debug: find_start_node().ok_or_else(..)?, then
\* the call of execute_from_node(start_node).
find_start_node ==
    /\ epc = "find_start_node"
    /\ IF FindStartNode(workflow) = None
       THEN /\ result' = << Err(InvalidWorkflow(<< "No start node found" >>)) >>
            /\ epc' = "done"
            /\ UNCHANGED stack
       ELSE /\ stack' = << Frame(FindStartNode(workflow)) >>
            /\ epc' = "running"
            /\ UNCHANGED result
    /\ UNCHANGED << workflow, recorder, call, executors, files, registry, tasks, state, variables, startMode, trace >>

\* execute_from_node: get_status() and the early return on Failed, both at
\* entry and after the first wait.
get_status ==
    /\ At("get_status") \/ At("get_status_again")
    /\ stack' = SetTop(
         IF state.status = Failed THEN [Top EXCEPT !.pc = "return", !.res = Ok]
         ELSE [Top EXCEPT !.pc = IF Top.pc = "get_status" THEN "wait_for_step"
                                  ELSE "set_current_node"])
    /\ UNCHANGED << workflow, recorder, call, executors, files, registry, tasks, state, variables, epc, result, startMode, trace >>

\* execute_from_node: the wait_for_step() before the node and the one that
\* follows pause_at_node.
wait ==
    /\ At("wait_for_step") \/ At("wait_for_step_paused")
    /\ wait_for_step(state)
    /\ stack' = SetTop([Top EXCEPT !.pc = IF Top.pc = "wait_for_step"
                                          THEN "get_status_again"
                                          ELSE "dispatch"])
    /\ UNCHANGED << workflow, recorder, call, executors, files, registry, tasks, state, variables, epc, result, startMode, trace >>

\* execute_from_node: set_current_node(Some(node.id))
current_node ==
    /\ At("set_current_node")
    /\ state' = set_current_node(state, Top.node)
    /\ stack' = SetTop([Top EXCEPT !.pc = "add_log"])
    /\ UNCHANGED << workflow, recorder, call, executors, files, registry, tasks, variables, epc, result, startMode, trace >>

\* execute_from_node: add_log("Executing node: ..")
executing_log ==
    /\ At("add_log")
    /\ state' = add_log(state, WithNode(Log("Executing node"), Top.node))
    /\ stack' = SetTop([Top EXCEPT !.pc = "should_pause_at_node"])
    /\ UNCHANGED << workflow, recorder, call, executors, files, registry, tasks, variables, epc, result, startMode, trace >>

\* execute_from_node: `if should_pause_at_node(&node.id)`
should_pause ==
    /\ At("should_pause_at_node")
    /\ stack' = SetTop([Top EXCEPT
                          !.hit = should_pause_at_node(state, Top.node),
                          !.pc = IF should_pause_at_node(state, Top.node)
                                 THEN "pause_at_node" ELSE "dispatch"])
    /\ UNCHANGED << workflow, recorder, call, executors, files, registry, tasks, state, variables, epc, result, startMode, trace >>

\* execute_from_node: pause_at_node(&node.id)
pause_at ==
    /\ At("pause_at_node")
    /\ state' = pause_at_node(state, Top.node)
    /\ stack' = SetTop([Top EXCEPT !.pc = "wait_for_step_paused",
                                   !.released = Releases])
    /\ UNCHANGED << workflow, recorder, call, executors, files, registry, tasks, variables, epc, result, startMode, trace >>

\* What the file driver answers to read_file: the content, or an error.
DriverAnswers == {TRUE, FALSE}

ReadFileError(id) == ExecutionFailed(<< "Failed to read file: ", id >>)

\* Runtime::get_variable: a name is one symbol; any other string names no
\* variable of the store.
get_variable(vs, name) ==
    IF Len(name) = 1 /\ name[1] \in DOMAIN vs THEN vs[name[1]] ELSE NoString

\* execute_set_variable: `match value_type`, the value parsed from the
\* interpolated string.
ParseValue(value_type, interpolated) ==
    CASE value_type = << "number" >> ->
            IF ParseF64(interpolated) # << >>
            THEN Number(ParseF64(interpolated)[1]) ELSE String(interpolated)
      [] value_type = << "boolean" >> ->
            Bool(to_lowercase(interpolated) = << "true" >>
                 \/ interpolated = << "1" >>)
      [] value_type = << "json" >> ->
            IF ParseJson(interpolated) # << >>
            THEN ParseJson(interpolated)[1] ELSE String(interpolated)
      [] OTHER -> String(interpolated)

\* execute_set_variable: the value the node writes when the store's map is
\* iterated in the order `order`.
SetVariableValue(node, vs, order) ==
    ParseValue(Get(node, "valueType", << "string" >>),
               interpolate(vs, order, Get(node, "value", << >>)))

\* Executor::evaluate_condition on the interpolated operands.
ParseOrZero(s) == IF ParseF64(s) # << >> THEN ParseF64(s)[1] ELSE 0

evaluate_condition(operator, left, right) ==
    CASE operator = << "==" >> -> left = right
      [] operator = << "!=" >> -> left # right
      [] operator = << ">" >> -> ParseOrZero(left) > ParseOrZero(right)
      [] operator = << "<" >> -> ParseOrZero(left) < ParseOrZero(right)
      [] operator = << ">=" >> -> ParseOrZero(left) >= ParseOrZero(right)
      [] operator = << "<=" >> -> ParseOrZero(left) <= ParseOrZero(right)
      [] operator = << "contains" >> -> contains(left, right)
      [] operator = << "isEmpty" >> -> left = << >>
      [] operator = << "isNotEmpty" >> -> left # << >>
      [] OTHER -> FALSE

\* Executor::evaluate_condition of a node, the store's map iterated in the
\* order `order`.
ConditionResult(node, vs, order) ==
    evaluate_condition(Get(node, "operator", << "==" >>),
                       interpolate(vs, order, Get(node, "leftOperand", << >>)),
                       interpolate(vs, order, Get(node, "rightOperand", << >>)))

\* evaluate_simple_expression in a variant that does not take "true" for
\* truthy.
evaluate_simple_expression_without_true(expr) ==
    to_lowercase(trim(expr)) \in {<< "1" >>, << "yes" >>}

\* Executor::evaluate_simple_expression
evaluate_simple_expression(expr) ==
    to_lowercase(trim(expr)) \in {<< "true" >>, << "1" >>, << "yes" >>}

\* The safety limit of the while loop.
max_iterations == 10000

\* Executor::execute_node in a variant whose `_ =>` arm returns an error.
execute_node_unknown_fatal ==
    /\ At("dispatch")
    /\ TopNode.type \notin ControlFlowTypes
    /\ trace' = Append(trace, Event("node", Top.node))
    /\ CASE TopNode.type \in {"start", "end"} ->
              /\ UNCHANGED << state, variables >>
              /\ stack' = SetTop([Top EXCEPT !.pc = "next_nodes"])
         [] TopNode.type = "log" ->
              /\ state' = add_log(state, WithNode(Log("message"), Top.node))
              /\ UNCHANGED variables
              /\ stack' = SetTop([Top EXCEPT !.pc = "next_nodes"])
         [] TopNode.type = "readFile" ->
              \E answer \in DriverAnswers :
                 IF answer
                 THEN /\ state' =
                           add_log(add_log(state,
                                     WithNode(Log("Reading file"), Top.node)),
                             WithNode(Log("File read successfully"), Top.node))
                      /\ variables' =
                           set_variable(variables, "fileContent", String(<< "content" >>))
                      /\ stack' = SetTop([Top EXCEPT !.pc = "next_nodes"])
                 ELSE /\ state' =
                           add_log(add_log(state,
                                     WithNode(Log("Reading file"), Top.node)),
                             WithNode(ErrorLog("Failed to read file"), Top.node))
                      /\ UNCHANGED variables
                      /\ stack' = SetTop([Top EXCEPT
                                            !.pc = "return",
                                            !.res = Err(ReadFileError(Top.node))])
         [] TopNode.type = "setVariable" ->
              \E order \in IterationOrders(Names(variables)) :
                 /\ variables' =
                      set_variable(variables,
                                   Get(TopNode, "variableName", << "variable" >>)[1],
                                   SetVariableValue(TopNode, variables, order))
                 /\ state' = add_log(state,
                                     WithNode(Log("Set variable"), Top.node))
                 /\ stack' = SetTop([Top EXCEPT !.pc = "next_nodes"])
         [] OTHER ->
              /\ state' = add_log(state,
                                  WithNode(Log("Unknown node type"), Top.node))
              /\ UNCHANGED variables
              /\ stack' = SetTop([Top EXCEPT
                                    !.pc = "return",
                                    !.res = Err(ExecutionFailed(
                                                << "Unknown node type: ", Top.node >>))])
    /\ UNCHANGED << workflow, recorder, call, executors, files, registry, tasks, epc, result, startMode >>

\* Executor::execute_node in a variant that reports the failure to the Runtime
\* where the handler fails, instead of leaving it to execute.
execute_node_fail_early ==
    /\ At("dispatch")
    /\ TopNode.type \notin ControlFlowTypes
    /\ trace' = Append(trace, Event("node", Top.node))
    /\ IF TopNode.type = "readFile"
       THEN \E answer \in DriverAnswers :
               IF answer
               THEN /\ state' =
                         add_log(add_log(state,
                                   WithNode(Log("Reading file"), Top.node)),
                           WithNode(Log("File read successfully"), Top.node))
                    /\ variables' =
                         set_variable(variables, "fileContent", String(<< "content" >>))
                    /\ stack' = SetTop([Top EXCEPT !.pc = "next_nodes"])
               ELSE /\ state' =
                         fail(add_log(add_log(state,
                                        WithNode(Log("Reading file"), Top.node)),
                                WithNode(ErrorLog("Failed to read file"), Top.node)),
                              ToString(ReadFileError(Top.node)))
                    /\ UNCHANGED variables
                    /\ stack' = SetTop([Top EXCEPT
                                          !.pc = "return",
                                          !.res = Err(ReadFileError(Top.node))])
       ELSE /\ state' = IF TopNode.type \in {"start", "end"} THEN state
                        ELSE add_log(state, WithNode(Log("message"), Top.node))
            /\ UNCHANGED variables
            /\ stack' = SetTop([Top EXCEPT !.pc = "next_nodes"])
    /\ UNCHANGED << workflow, recorder, call, executors, files, registry, tasks, epc, result, startMode >>

\* Executor::execute_node with its handlers (execute_log, execute_read_file,
\* the no-op start and end, the logged unknown type): the handler's effects
\* and its result.
execute_node ==
    /\ At("dispatch")
    /\ TopNode.type \notin ControlFlowTypes
    /\ trace' = Append(trace, Event("node", Top.node))
    /\ CASE TopNode.type \in {"start", "end"} ->
              /\ UNCHANGED << state, variables >>
              /\ stack' = SetTop([Top EXCEPT !.pc = "next_nodes"])
         [] TopNode.type = "log" ->
              /\ state' = add_log(state, WithNode(Log("message"), Top.node))
              /\ UNCHANGED variables
              /\ stack' = SetTop([Top EXCEPT !.pc = "next_nodes"])
         [] TopNode.type = "readFile" ->
              \E answer \in DriverAnswers :
                 IF answer
                 THEN /\ state' =
                           add_log(add_log(state,
                                     WithNode(Log("Reading file"), Top.node)),
                             WithNode(Log("File read successfully"), Top.node))
                      /\ variables' =
                           set_variable(variables, "fileContent", String(<< "content" >>))
                      /\ stack' = SetTop([Top EXCEPT !.pc = "next_nodes"])
                 ELSE /\ state' =
                           add_log(add_log(state,
                                     WithNode(Log("Reading file"), Top.node)),
                             WithNode(ErrorLog("Failed to read file"), Top.node))
                      /\ UNCHANGED variables
                      /\ stack' = SetTop([Top EXCEPT
                                            !.pc = "return",
                                            !.res = Err(ReadFileError(Top.node))])
         [] TopNode.type = "setVariable" ->
              \E order \in IterationOrders(Names(variables)) :
                 /\ variables' =
                      set_variable(variables,
                                   Get(TopNode, "variableName", << "variable" >>)[1],
                                   SetVariableValue(TopNode, variables, order))
                 /\ state' = add_log(state,
                                     WithNode(Log("Set variable"), Top.node))
                 /\ stack' = SetTop([Top EXCEPT !.pc = "next_nodes"])
         [] OTHER ->
              /\ state' = add_log(state,
                                  WithNode(Log("Unknown node type"), Top.node))
              /\ UNCHANGED variables
              /\ stack' = SetTop([Top EXCEPT !.pc = "next_nodes"])
    /\ UNCHANGED << workflow, recorder, call, executors, files, registry, tasks, epc, result, startMode >>

\* A `for n in list { self.execute_from_node(n).await?; }` loop at its k-th
\* element: the call.
CallNext(list) ==
    /\ Top.k <= Len(list)
    /\ stack' = Push([Top EXCEPT !.k = Top.k + 1], Frame(list[Top.k]))

\* next_nodes in a variant that takes the sibling edges last to first.
next_nodes_reversed ==
    /\ At("next_nodes")
    /\ LET found == FindNextNodes(workflow, Top.node)
           list == [i \in 1..Len(found) |-> found[Len(found) + 1 - i]]
       IN  \/ CallNext(list)
           \/ /\ Top.k > Len(list)
              /\ stack' = SetTop([Top EXCEPT !.pc = "return", !.res = Ok])
    /\ UNCHANGED << workflow, recorder, call, executors, files, registry, tasks, state, variables, epc, result, startMode, trace >>

\* next_nodes in a variant that keeps a visited set: a next node whose
\* handler has run already is passed over.
next_nodes_visited_once ==
    /\ At("next_nodes")
    /\ LET list == FindNextNodes(workflow, Top.node)
           ran(id) == \E i \in 1..Len(trace) : trace[i] = Event("node", id)
       IN  \/ /\ Top.k <= Len(list)
              /\ ~ran(list[Top.k])
              /\ CallNext(list)
           \/ /\ Top.k <= Len(list)
              /\ ran(list[Top.k])
              /\ stack' = SetTop([Top EXCEPT !.k = Top.k + 1])
           \/ /\ Top.k > Len(list)
              /\ stack' = SetTop([Top EXCEPT !.pc = "return", !.res = Ok])
    /\ UNCHANGED << workflow, recorder, call, executors, files, registry, tasks, state, variables, epc, result, startMode, trace >>

\* execute_from_node: the loop over find_next_nodes(&node.id)
next_nodes ==
    /\ At("next_nodes")
    /\ LET list == FindNextNodes(workflow, Top.node)
       IN  \/ CallNext(list)
           \/ /\ Top.k > Len(list)
              /\ stack' = SetTop([Top EXCEPT !.pc = "return", !.res = Ok])
    /\ UNCHANGED << workflow, recorder, call, executors, files, registry, tasks, state, variables, epc, result, startMode, trace >>

\* execute_loop_node, loopType count: the "Starting count loop" log
loop_start ==
    /\ At("dispatch")
    /\ TopNode.type = "loop"
    /\ Get(TopNode, "loopType", << "count" >>) = << "count" >>
    /\ trace' = Append(trace, Event("node", Top.node))
    /\ state' = add_log(state, WithNode(Log("Starting count loop"), Top.node))
    /\ stack' = SetTop([Top EXCEPT !.pc = "loop_iteration", !.it = 0])
    /\ UNCHANGED << workflow, recorder, call, executors, files, registry, tasks, variables, epc, result, startMode >>

\* loop_iteration in a variant that iterates over 0..=count.
loop_iteration_inclusive ==
    /\ At("loop_iteration")
    /\ IF Top.it <= TopNode.n
       THEN /\ variables' = set_variable(variables, "index", Number(Top.it))
            /\ state' = add_log(state, WithNode(Log("Loop iteration"), Top.node))
            /\ stack' = SetTop([Top EXCEPT !.pc = "loop_body", !.k = 1])
       ELSE /\ UNCHANGED << variables, state >>
            /\ stack' = SetTop([Top EXCEPT !.pc = "loop_done", !.k = 1])
    /\ UNCHANGED << workflow, recorder, call, executors, files, registry, tasks, epc, result, startMode, trace >>

\* execute_loop_node: `for i in 0..count`: the index variable and the
\* iteration log of iteration i, or the end of the loop.
loop_iteration ==
    /\ At("loop_iteration")
    /\ IF Top.it < TopNode.n
       THEN /\ variables' = set_variable(variables, "index", Number(Top.it))
            /\ state' = add_log(state, WithNode(Log("Loop iteration"), Top.node))
            /\ stack' = SetTop([Top EXCEPT !.pc = "loop_body", !.k = 1])
       ELSE /\ UNCHANGED << variables, state >>
            /\ stack' = SetTop([Top EXCEPT !.pc = "loop_done", !.k = 1])
    /\ UNCHANGED << workflow, recorder, call, executors, files, registry, tasks, epc, result, startMode, trace >>

\* execute_loop_node: the loop over the body nodes of one iteration
loop_body ==
    /\ At("loop_body")
    /\ LET list == FindNextNodesByHandle(workflow, Top.node, "body")
       IN  \/ CallNext(list)
           \/ /\ Top.k > Len(list)
              /\ stack' = SetTop([Top EXCEPT !.pc = "loop_iteration",
                                             !.it = Top.it + 1])
    /\ UNCHANGED << workflow, recorder, call, executors, files, registry, tasks, state, variables, epc, result, startMode, trace >>

\* execute_loop_node: the loop over the done nodes
loop_done ==
    /\ At("loop_done")
    /\ LET list == FindNextNodesByHandle(workflow, Top.node, "done")
       IN  \/ CallNext(list)
           \/ /\ Top.k > Len(list)
              /\ stack' = SetTop([Top EXCEPT !.pc = "return", !.res = Ok])
    /\ UNCHANGED << workflow, recorder, call, executors, files, registry, tasks, state, variables, epc, result, startMode, trace >>

\* execute_loop_node, loopType while: the "Starting while loop" log
while_start ==
    /\ At("dispatch")
    /\ TopNode.type = "loop"
    /\ Get(TopNode, "loopType", << "count" >>) = << "while" >>
    /\ trace' = Append(trace, Event("node", Top.node))
    /\ state' = add_log(state, WithNode(Log("Starting while loop"), Top.node))
    /\ stack' = SetTop([Top EXCEPT !.pc = "while_iteration", !.it = 0])
    /\ UNCHANGED << workflow, recorder, call, executors, files, registry, tasks, variables, epc, result, startMode >>

\* execute_loop_node: `while iteration < max_iterations`: the condition is
\* interpolated and evaluated; when it holds, the index variable and the
\* iteration log; otherwise, and at the limit, the loop ends.
while_iteration ==
    /\ At("while_iteration")
    /\ \E order \in IterationOrders(Names(variables)) :
          IF /\ Top.it < max_iterations
             /\ evaluate_simple_expression(
                    interpolate(variables, order,
                                Get(TopNode, "condition", << "false" >>)))
          THEN /\ variables' = set_variable(variables, "index", Number(Top.it))
               /\ state' = add_log(state,
                                   WithNode(Log("While loop iteration"), Top.node))
               /\ stack' = SetTop([Top EXCEPT !.pc = "while_body", !.k = 1])
          ELSE /\ UNCHANGED << variables, state >>
               /\ stack' = SetTop([Top EXCEPT !.pc = "loop_done", !.k = 1])
    /\ UNCHANGED << workflow, recorder, call, executors, files, registry, tasks, epc, result, startMode, trace >>

\* execute_loop_node: the loop over the body nodes of one while iteration,
\* then `iteration += 1`
while_body ==
    /\ At("while_body")
    /\ LET list == FindNextNodesByHandle(workflow, Top.node, "body")
       IN  \/ CallNext(list)
           \/ /\ Top.k > Len(list)
              /\ stack' = SetTop([Top EXCEPT !.pc = "while_iteration",
                                             !.it = Top.it + 1])
    /\ UNCHANGED << workflow, recorder, call, executors, files, registry, tasks, state, variables, epc, result, startMode, trace >>

\* execute_condition_node: evaluate_condition, the branch and its log
condition_start ==
    /\ At("dispatch")
    /\ TopNode.type = "condition"
    /\ trace' = Append(trace, Event("node", Top.node))
    /\ state' = add_log(state,
                        WithNode(Log("Condition evaluated to"), Top.node))
    /\ \E order \in IterationOrders(Names(variables)) :
          stack' = SetTop([Top EXCEPT
                      !.pc = "condition_nodes", !.k = 1,
                      !.branch = IF ConditionResult(TopNode, variables, order)
                                 THEN "true" ELSE "false"])
    /\ UNCHANGED << workflow, recorder, call, executors, files, registry, tasks, variables, epc, result, startMode >>

\* execute_condition_node: the loop over the nodes of the chosen branch
condition_nodes ==
    /\ At("condition_nodes")
    /\ LET list == FindNextNodesByHandle(workflow, Top.node, Top.branch)
       IN  \/ CallNext(list)
           \/ /\ Top.k > Len(list)
              /\ stack' = SetTop([Top EXCEPT !.pc = "return", !.res = Ok])
    /\ UNCHANGED << workflow, recorder, call, executors, files, registry, tasks, state, variables, epc, result, startMode, trace >>

\* execute_foreach_node: get_variable(list_variable); a list is cloned and
\* logged, anything else gets the warning
foreach_start ==
    /\ At("dispatch")
    /\ TopNode.type = "forEach"
    /\ trace' = Append(trace, Event("node", Top.node))
    /\ LET list == get_variable(variables, Get(TopNode, "listVariable", << >>))
       IN  IF list # NoString /\ list[1] = "List"
           THEN /\ state' = add_log(state,
                        WithNode(Log("Starting forEach loop"), Top.node))
                /\ stack' = SetTop([Top EXCEPT !.pc = "foreach_iteration",
                                               !.it = 0, !.items = list[2]])
           ELSE /\ state' = add_log(state,
                        WithNode(Warn("Variable is not a list or not found"),
                                 Top.node))
                /\ stack' = SetTop([Top EXCEPT !.pc = "foreach_done", !.k = 1])
    /\ UNCHANGED << workflow, recorder, call, executors, files, registry, tasks, variables, epc, result, startMode >>

\* foreach_iteration in a variant that leaves out the last item.
foreach_iteration_exclusive ==
    /\ At("foreach_iteration")
    /\ IF Top.it + 1 < Len(Top.items)
       THEN /\ variables' =
                 set_variable(set_variable(variables, "index", Number(Top.it)),
                              "item", Top.items[Top.it + 1])
            /\ state' = add_log(state,
                                WithNode(Log("ForEach iteration"), Top.node))
            /\ stack' = SetTop([Top EXCEPT !.pc = "foreach_body", !.k = 1])
       ELSE /\ UNCHANGED << variables, state >>
            /\ stack' = SetTop([Top EXCEPT !.pc = "foreach_done", !.k = 1])
    /\ UNCHANGED << workflow, recorder, call, executors, files, registry, tasks, epc, result, startMode, trace >>

\* foreach_iteration in a variant that reads the list variable again at
\* every iteration.
foreach_iteration_rereading ==
    /\ At("foreach_iteration")
    /\ LET list == get_variable(variables, Get(TopNode, "listVariable", << >>))
           items == IF list # NoString /\ list[1] = "List" THEN list[2] ELSE << >>
       IN  IF Top.it < Len(items)
           THEN /\ variables' =
                     set_variable(set_variable(variables, "index", Number(Top.it)),
                                  "item", items[Top.it + 1])
                /\ state' = add_log(state,
                                    WithNode(Log("ForEach iteration"), Top.node))
                /\ stack' = SetTop([Top EXCEPT !.pc = "foreach_body", !.k = 1])
           ELSE /\ UNCHANGED << variables, state >>
                /\ stack' = SetTop([Top EXCEPT !.pc = "foreach_done", !.k = 1])
    /\ UNCHANGED << workflow, recorder, call, executors, files, registry, tasks, epc, result, startMode, trace >>

\* execute_foreach_node: `for (i, item) in items.iter().enumerate()`: the
\* index and item variables and the iteration log, or the end of the loop
foreach_iteration ==
    /\ At("foreach_iteration")
    /\ IF Top.it < Len(Top.items)
       THEN /\ variables' =
                 set_variable(set_variable(variables, "index", Number(Top.it)),
                              "item", Top.items[Top.it + 1])
            /\ state' = add_log(state,
                                WithNode(Log("ForEach iteration"), Top.node))
            /\ stack' = SetTop([Top EXCEPT !.pc = "foreach_body", !.k = 1])
       ELSE /\ UNCHANGED << variables, state >>
            /\ stack' = SetTop([Top EXCEPT !.pc = "foreach_done", !.k = 1])
    /\ UNCHANGED << workflow, recorder, call, executors, files, registry, tasks, epc, result, startMode, trace >>

\* execute_foreach_node: the loop over the body nodes of one iteration
foreach_body ==
    /\ At("foreach_body")
    /\ LET list == FindNextNodesByHandle(workflow, Top.node, "body")
       IN  \/ CallNext(list)
           \/ /\ Top.k > Len(list)
              /\ stack' = SetTop([Top EXCEPT !.pc = "foreach_iteration",
                                             !.it = Top.it + 1])
    /\ UNCHANGED << workflow, recorder, call, executors, files, registry, tasks, state, variables, epc, result, startMode, trace >>

\* execute_foreach_node: the loop over the done nodes
foreach_done ==
    /\ At("foreach_done")
    /\ LET list == FindNextNodesByHandle(workflow, Top.node, "done")
       IN  \/ CallNext(list)
           \/ /\ Top.k > Len(list)
              /\ stack' = SetTop([Top EXCEPT !.pc = "return", !.res = Ok])
    /\ UNCHANGED << workflow, recorder, call, executors, files, registry, tasks, state, variables, epc, result, startMode, trace >>

\* execute_try_catch_node: the "Starting try-catch block" log; attempt 0
\* begins.
try_catch_start ==
    /\ At("dispatch")
    /\ TopNode.type = "tryCatch"
    /\ trace' = trace \o << Event("node", Top.node), Event("try", Top.node) >>
    /\ state' = add_log(state,
                        WithNode(Log("Starting try-catch block"), Top.node))
    /\ stack' = SetTop([Top EXCEPT !.pc = "try", !.it = 0, !.k = 1,
                                   !.last_error = NoString])
    /\ UNCHANGED << workflow, recorder, call, executors, files, registry, tasks, variables, epc, result, startMode >>

\* execute_try_catch_node: `if attempt > 0`: the retry log and the sleep
try_retry ==
    /\ At("try_retry")
    /\ trace' = Append(trace, Event("try", Top.node))
    /\ state' = add_log(state, WithNode(Log("Retry attempt"), Top.node))
    /\ stack' = SetTop([Top EXCEPT !.pc = "try", !.k = 1])
    /\ UNCHANGED << workflow, recorder, call, executors, files, registry, tasks, variables, epc, result, startMode >>

\* execute_try_catch_node: the loop over the try nodes of one attempt; when
\* all of them succeeded, `if success` goes on to the finally nodes.
try_nodes ==
    /\ At("try")
    /\ LET list == FindNextNodesByHandle(workflow, Top.node, "try")
       IN  \/ /\ CallNext(list)
              /\ UNCHANGED trace
           \/ /\ Top.k > Len(list)
              /\ stack' = SetTop([Top EXCEPT !.pc = "finally_after_try",
                                             !.k = 1])
              /\ trace' = Append(trace, Event("finally", Top.node))
    /\ UNCHANGED << workflow, recorder, call, executors, files, registry, tasks, state, variables, epc, result, startMode >>

\* try_caught in a variant that leaves the error variable as it is.
try_caught_without_variable ==
    /\ At("caught")
    /\ trace' = Append(trace, Event("catch", Top.node))
    /\ IF Top.last_error # NoString
       THEN state' = add_log(state, WithNode(Warn("Caught error"), Top.node))
       ELSE UNCHANGED state
    /\ stack' = SetTop([Top EXCEPT !.pc = "catch", !.k = 1])
    /\ UNCHANGED << workflow, recorder, call, executors, files, registry, tasks, variables, epc, result, startMode >>

\* execute_try_catch_node: after the last attempt failed, the error variable
\* and the "Caught error" log
try_caught ==
    /\ At("caught")
    /\ trace' = Append(trace, Event("catch", Top.node))
    /\ IF Top.last_error # NoString
       THEN /\ variables' = set_variable(variables, "error",
                                         String(Top.last_error))
            /\ state' = add_log(state, WithNode(Warn("Caught error"), Top.node))
       ELSE UNCHANGED << variables, state >>
    /\ stack' = SetTop([Top EXCEPT !.pc = "catch", !.k = 1])
    /\ UNCHANGED << workflow, recorder, call, executors, files, registry, tasks, epc, result, startMode >>

\* execute_try_catch_node: the loop over the catch nodes
catch_nodes ==
    /\ At("catch")
    /\ LET list == FindNextNodesByHandle(workflow, Top.node, "catch")
       IN  \/ /\ CallNext(list)
              /\ UNCHANGED trace
           \/ /\ Top.k > Len(list)
              /\ stack' = SetTop([Top EXCEPT !.pc = "finally", !.k = 1])
              /\ trace' = Append(trace, Event("finally", Top.node))
    /\ UNCHANGED << workflow, recorder, call, executors, files, registry, tasks, state, variables, epc, result, startMode >>

\* execute_try_catch_node: the loops over the finally nodes, after a
\* successful attempt and after the catch nodes
finally_nodes ==
    /\ At("finally_after_try") \/ At("finally")
    /\ LET list == FindNextNodesByHandle(workflow, Top.node, "finally")
       IN  \/ CallNext(list)
           \/ /\ Top.k > Len(list)
              /\ stack' = SetTop([Top EXCEPT !.pc = "return", !.res = Ok])
    /\ UNCHANGED << workflow, recorder, call, executors, files, registry, tasks, state, variables, epc, result, startMode, trace >>

\* Resume in a variant whose count loop goes on to the next iteration when a
\* body node returned an Err.
ResumeLoopContinues(caller, res) ==
    IF res.ok \/ caller.pc = "loop_body" THEN caller
    ELSE IF caller.pc = "try"
         THEN [caller EXCEPT
                 !.last_error = ToString(res.e),
                 !.it = IF caller.it < FindNode(workflow, caller.node).n
                        THEN caller.it + 1 ELSE caller.it,
                 !.pc = IF caller.it < FindNode(workflow, caller.node).n
                        THEN "try_retry" ELSE "caught"]
         ELSE [caller EXCEPT !.pc = "return", !.res = res]

\* What the caller's loop does with the callee's result.  In the try loop of
\* execute_try_catch_node an Err sets last_error and breaks: the next attempt
\* follows while attempt < maxRetries, the catch block after the last one.
\* Everywhere else the `?` returns the Err from the caller.
Resume(caller, res) ==
    IF res.ok THEN caller
    ELSE IF caller.pc = "try"
         THEN [caller EXCEPT
                 !.last_error = ToString(res.e),
                 !.it = IF caller.it < FindNode(workflow, caller.node).n
                        THEN caller.it + 1 ELSE caller.it,
                 !.pc = IF caller.it < FindNode(workflow, caller.node).n
                        THEN "try_retry" ELSE "caught"]
         ELSE [caller EXCEPT !.pc = "return", !.res = res]

\* execute_from_node returns to the execute_from_node, loop or tryCatch
\* routine that called it.
return_to_caller ==
    /\ At("return")
    /\ Len(stack) > 1
    /\ stack' = [Pop EXCEPT ![Len(stack) - 1] =
                    Resume(stack[Len(stack) - 1], Top.res)]
    /\ UNCHANGED << workflow, recorder, call, executors, files, registry, tasks, state, variables, epc, result, startMode, trace >>

\* Executor::execute / execute_debug: `if let Err(e) = execute_from_node(..)`
\* calls runtime.fail(e.to_string()) and returns Err(e); otherwise
\* runtime.complete() and Ok(()).
execute_finish ==
    /\ At("return")
    /\ Len(stack) = 1
    /\ state' = IF Top.res.ok THEN complete(state)
                ELSE fail(state, ToString(Top.res.e))
    /\ result' = << Top.res >>
    /\ epc' = "done"
    /\ stack' = << >>
    /\ UNCHANGED << workflow, recorder, call, executors, files, registry, tasks, variables, startMode, trace >>

Executor ==
    \/ execute
    \/ execute_debug
    \/ find_start_node
    \/ get_status
    \/ wait
    \/ current_node
    \/ executing_log
    \/ should_pause
    \/ pause_at
    \/ execute_node
    \/ next_nodes
    \/ loop_start
    \/ loop_iteration
    \/ loop_body
    \/ loop_done
    \/ while_start
    \/ while_iteration
    \/ while_body
    \/ condition_start
    \/ condition_nodes
    \/ foreach_start
    \/ foreach_iteration
    \/ foreach_body
    \/ foreach_done
    \/ try_catch_start
    \/ try_retry
    \/ try_nodes
    \/ try_caught
    \/ catch_nodes
    \/ finally_nodes
    \/ return_to_caller
    \/ execute_finish

Next == Executor \/ Host

Spec == Init /\ [][Next]_vars

\* ------------------------------------------------------- stop_execution

\* stop_execution: executors.remove(&workflow_id).  The task spawned by
\* execute_workflow holds its own Arc of the Executor.
stop_execution ==
    /\ executors' = executors \ {WorkflowId}
    /\ executors' # executors
    /\ UNCHANGED << workflow, recorder, call, files, registry, tasks, state, variables, epc,
                    result, stack, startMode, trace >>

StopNext == Executor \/ Host \/ stop_execution

\* tokio keeps polling the spawned task: a step the task can take is taken.
StopSpec == Init /\ [][StopNext]_vars /\ WF_vars(Executor)

\* One run of execute() on the while loop whose condition is always truthy,
\* the host making no call.
WhileInit ==
    /\ workflow = WhileTrueWorkflow
    /\ recorder = NewRecorder
    /\ state = NewRuntimeState
    /\ variables = [v \in VarNames |-> NoString]
    /\ epc = "spawned"
    /\ result = << >>
    /\ stack = << >>
    /\ startMode = None
    /\ trace = << >>
    /\ call = NoCall
    /\ executors = {WorkflowId}
    /\ files = << >>
    /\ registry = NewRegistry
    /\ tasks = << >>

WhileNext ==
    \/ execute
    \/ find_start_node
    \/ get_status
    \/ wait
    \/ current_node
    \/ executing_log
    \/ should_pause
    \/ execute_node
    \/ next_nodes
    \/ while_start
    \/ while_iteration
    \/ while_body
    \/ loop_done
    \/ return_to_caller
    \/ execute_finish

\* The task is the only one at work and tokio keeps polling it: a step it
\* can take is taken.
WhileSpec == WhileInit /\ [][WhileNext]_vars /\ WF_vars(WhileNext)

\* ----------------------------------------------------- graphs with cycles

\* start -> a(log) -> b(log) -> a
CycleWorkflow ==
    [nodes |-> << WfNode("s", "start", 0), WfNode("a", "log", 0),
                  WfNode("b", "log", 0) >>,
     edges |-> << WfEdge("s", "a", None), WfEdge("a", "b", None),
                  WfEdge("b", "a", None) >>]

\* start -> l(loop count) -[body]-> x(log) -> l
LoopBackWorkflow ==
    [nodes |-> << WfNode("s", "start", 0), WfNode("l", "loop", LoopCount),
                  WfNode("x", "log", 0) >>,
     edges |-> << WfEdge("s", "l", None), WfEdge("l", "x", "body"),
                  WfEdge("x", "l", None) >>]

\* The number of nested execute_from_node invocations the task's stack has
\* room for.
MaxDepth == 8

\* One run of execute() on a graph with a cycle, or on the linear graph, the
\* host making no call.
CycleInit ==
    /\ workflow \in {CycleWorkflow, LoopBackWorkflow, LinearWorkflow}
    /\ recorder = NewRecorder
    /\ state = NewRuntimeState
    /\ variables = [v \in VarNames |-> NoString]
    /\ epc = "spawned"
    /\ result = << >>
    /\ stack = << >>
    /\ startMode = None
    /\ trace = << >>
    /\ call = NoCall
    /\ executors = {WorkflowId}
    /\ files = << >>
    /\ registry = NewRegistry
    /\ tasks = << >>

\* The invocations nested in one another have used up the stack: the task
\* is gone without execute() having returned.
stack_overflow ==
    /\ epc = "running"
    /\ Len(stack) >= MaxDepth
    /\ epc' = "overflow"
    /\ UNCHANGED << workflow, recorder, call, executors, files, registry, tasks, state,
                    variables, result, stack, startMode, trace >>

StackLeft == Len(stack) < MaxDepth

CycleNext ==
    \/ StackLeft /\ execute
    \/ StackLeft /\ find_start_node
    \/ StackLeft /\ get_status
    \/ StackLeft /\ wait
    \/ StackLeft /\ current_node
    \/ StackLeft /\ executing_log
    \/ StackLeft /\ should_pause
    \/ StackLeft /\ execute_node
    \/ StackLeft /\ next_nodes
    \/ StackLeft /\ loop_start
    \/ StackLeft /\ loop_iteration
    \/ StackLeft /\ loop_body
    \/ StackLeft /\ return_to_caller
    \/ StackLeft /\ execute_finish
    \/ stack_overflow

\* The task is the only one at work and tokio keeps polling it: a step it
\* can take is taken.
CycleSpec == CycleInit /\ [][CycleNext]_vars /\ WF_vars(CycleNext)

\* ---------------------------------------- VariableStore::interpolate alone

\* The values a variable of the store is drawn from: not set, text, text
\* that is the token of a variable, a number.
StoreValues ==
    {NoString, String(<< "x" >>), String(Placeholder("a")),
     String(Placeholder("b")), Number(1)}

\* The stores that hold some of the variables a and b.
Stores ==
    {vs \in [VarNames -> StoreValues] :
        \A name \in VarNames \ {"a", "b"} : vs[name] = NoString}

\* The texts handed to interpolate: one token, of a, of b, and of c, which
\* no store holds; text without a token; two tokens.
Texts ==
    {Placeholder("a"), Placeholder("b"), Placeholder("c"), << "x" >>,
     Placeholder("a") \o << " " >> \o Placeholder("b")}

\* A store and a text on which interpolate is about to be called.
InterpolateInit ==
    /\ workflow = LinearWorkflow
    /\ recorder = NewRecorder
    /\ state = NewRuntimeState
    /\ variables \in Stores
    /\ epc = "spawned"
    /\ result = << >>
    /\ stack = << >>
    /\ startMode = None
    /\ trace = << >>
    /\ \E text \in Texts : call = [NoCall EXCEPT !.fn = "interpolate", !.text = text]
    /\ executors = {WorkflowId}
    /\ files = << >>
    /\ registry = NewRegistry
    /\ tasks = << >>

\* Runtime::interpolate: VariableStore::interpolate under the variables
\* lock; the map yields its entries in one of its orders.
call_interpolate ==
    /\ call.fn = "interpolate"
    /\ \E order \in IterationOrders(Names(variables)) :
          call' = [call EXCEPT !.fn = "returned", !.order = order,
                               !.out = interpolate(variables, order, call.text)]
    /\ UNCHANGED << workflow, recorder, state, variables, epc, result, stack, startMode, trace,
                    executors, files, registry, tasks >>

InterpolateNext == call_interpolate

InterpolateSpec == InterpolateInit /\ [][InterpolateNext]_vars

\* ------------------------------------------------------------- the plugins

\* mlua::Value, as far as the plugins' files produce it.  A Lua string is a
\* sequence of bytes; the byte "\xFF" occurs in no UTF-8 text.
LuaNil == << "Nil" >>
LuaBoolean(b) == << "Boolean", b >>
LuaNumber(n) == << "Number", n >>
LuaString(bytes) == << "String", bytes >>

\* mlua::String::to_str: the text of a string that is valid UTF-8 (<< s >>),
\* Err (<< >>) for any other.
to_str(bytes) ==
    IF \E i \in 1..Len(bytes) : bytes[i] = "\\xFF" THEN << >> ELSE << bytes >>

\* PluginError, its variant and its message.
PluginExecutionError(msg) == [kind |-> "ExecutionError", msg |-> msg]
PluginHandlerNotFound(msg) == [kind |-> "HandlerNotFound", msg |-> msg]
PluginInvalidFormat(msg) == [kind |-> "InvalidFormat", msg |-> msg]
PluginLoadError(msg) == [kind |-> "LoadError", msg |-> msg]
PluginIoError(msg) == [kind |-> "IoError", msg |-> msg]

\* A node table of a plugin: its `type` field (<< >>: none) and its
\* `execute` field (<< >>: none), a function known by what a call of it
\* returns: << "return", v >>, or << "error" >> when it raises an error.
LuaNode(type, fn) == [type |-> type, execute |-> fn]

\* What evaluating a plugin file's source yields: an error, a value that
\* is no table, or a table with its `name` (<< >>: none) and its `nodes`
\* (<< >>: none, << list >>: the node tables in order).
LuaEvalError == [eval |-> "error", name |-> << >>, nodes |-> << >>]
LuaNotATable == [eval |-> "value", name |-> << >>, nodes |-> << >>]
LuaTable(name, nodes) == [eval |-> "table", name |-> name, nodes |-> nodes]

\* A directory entry: its extension and what its source evaluates to.
File(ext, chunk) == [ext |-> ext, chunk |-> chunk]

\* PluginDef and PluginNodeDef: the name, the node types in order, the
\* path of the source; the node definition with its label.
PluginDef(name, types, path) == [name |-> name, nodes |-> types, source_path |-> path]
PluginNodeDef(type, label) == [node_type |-> type, label |-> label]

\* PluginLoader::parse_nodes: the node types in order, or the first error.
RECURSIVE parse_node_list(_, _)
parse_node_list(list, types) ==
    IF list = << >>
    THEN IF types = << >>
         THEN Err(PluginInvalidFormat(<< "Plugin must define at least one node" >>))
         ELSE [ok |-> TRUE, e |-> NoError, value |-> types]
    ELSE IF Head(list).type = << >>
    THEN Err(PluginInvalidFormat(<< "Node must have a 'type' field" >>))
    ELSE IF Head(list).execute = << >>
    THEN Err(PluginInvalidFormat(<< "Node must have an 'execute' function" >>))
    ELSE parse_node_list(Tail(list), Append(types, Head(list).type[1]))

parse_nodes(chunk) ==
    IF chunk.nodes = << >>
    THEN Err(PluginInvalidFormat(<< "Plugin must have a 'nodes' field" >>))
    ELSE parse_node_list(chunk.nodes[1], << >>)

\* PluginLoader::parse_plugin: the PluginDef (value), or the error.
parse_plugin(chunk, path) ==
    IF chunk.eval = "error"
    THEN Err(PluginLoadError(<< "Failed to evaluate plugin" >>))
    ELSE IF chunk.eval # "table"
    THEN Err(PluginInvalidFormat(<< "Plugin must return a table" >>))
    ELSE IF chunk.name = << >>
    THEN Err(PluginInvalidFormat(<< "Plugin must have a 'name' field" >>))
    ELSE IF ~parse_nodes(chunk).ok THEN parse_nodes(chunk)
    ELSE [ok |-> TRUE, e |-> NoError,
          value |-> PluginDef(chunk.name[1], parse_nodes(chunk).value, path)]

\* PluginRegistry: the writes register and unregister make, one per lock.
insert_node_to_plugin(reg, type, name) ==
    [reg EXCEPT !.node_to_plugin[type] = << name >>]

insert_node_def(reg, type, name) ==
    [reg EXCEPT !.node_defs[type] = << PluginNodeDef(type, name) >>]

insert_plugin(reg, plugin) ==
    [reg EXCEPT !.plugins[plugin.name] = << plugin >>]

remove_plugin(reg, name) == [reg EXCEPT !.plugins[name] = << >>]

remove_node_to_plugin(reg, type) == [reg EXCEPT !.node_to_plugin[type] = << >>]

remove_node_def(reg, type) == [reg EXCEPT !.node_defs[type] = << >>]

\* PluginRegistry::register with no other call in between.
RECURSIVE register_nodes(_, _, _)
register_nodes(reg, plugin, i) ==
    IF i > Len(plugin.nodes) THEN reg
    ELSE register_nodes(
             insert_node_def(
                 insert_node_to_plugin(reg, plugin.nodes[i], plugin.name),
                 plugin.nodes[i], plugin.name),
             plugin, i + 1)

register(reg, plugin) == insert_plugin(register_nodes(reg, plugin, 1), plugin)

\* PluginRegistry::unregister with no other call in between.
RECURSIVE unregister_nodes(_, _, _)
unregister_nodes(reg, plugin, i) ==
    IF i > Len(plugin.nodes) THEN reg
    ELSE unregister_nodes(
             remove_node_def(remove_node_to_plugin(reg, plugin.nodes[i]),
                             plugin.nodes[i]),
             plugin, i + 1)

unregister(reg, name) ==
    IF reg.plugins[name] = << >> THEN reg
    ELSE unregister_nodes(remove_plugin(reg, name), reg.plugins[name][1], 1)

\* PluginRegistry::has_node_type, get_plugin_for_node, get_plugin and
\* get_plugin_source, each on the maps as it finds them.
has_node_type(reg, type) == reg.node_to_plugin[type] # << >>

get_plugin_for_node(reg, type) == reg.node_to_plugin[type]

get_plugin(reg, name) == reg.plugins[name]

get_plugin_source(reg_for_node, reg_for_plugin, type) ==
    IF get_plugin_for_node(reg_for_node, type) = << >> THEN << >>
    ELSE LET plugin == get_plugin(reg_for_plugin,
                                  get_plugin_for_node(reg_for_node, type)[1])
         IN  IF plugin = << >> THEN << >> ELSE << plugin[1].source_path >>

\* A call in progress: the operation, the plugin (<< >>: none) and the name
\* it was called with, its place, the index of its loop, the plugins a
\* load_directory has pushed, and its result (<< >> until it returns).
\* `value` is history: what the plugin's execute function returned.
Task(op, plugin, name) ==
    [op |-> op, plugin |-> plugin, name |-> name, pc |-> "start", i |-> 1,
     loaded |-> << >>, value |-> << >>, out |-> << >>]

\* The values a plugin's execute function returns.
LuaReturns ==
    {LuaBoolean(TRUE), LuaBoolean(FALSE), LuaNil, LuaNumber(1),
     LuaString(<< "boom" >>), LuaString(<< "bo", "\\xFF" >>)}

\* A well-formed plugin file with one node.
PluginFile(name, type, fn) ==
    File("lua", LuaTable(<< name >>, << << LuaNode(<< type >>, << fn >>) >> >>))

\* The well-formed plugin files: plugin P with node type t1, whose execute
\* returns a value or raises an error, and plugin Q with node type t2.
WellFormedFiles ==
    {PluginFile("P", "t1", << "return", v >>) : v \in LuaReturns}
        \cup {PluginFile("P", "t1", << "error" >>),
              PluginFile("Q", "t2", << "return", LuaBoolean(TRUE) >>)}

\* The malformed plugin files: a source that fails to evaluate, one that
\* returns no table, a table without name, without nodes, with a node
\* without type, with a node without execute (after a node that is
\* complete), and with no node.
MalformedFiles ==
    {File("lua", LuaEvalError),
     File("lua", LuaNotATable),
     File("lua", LuaTable(<< >>,
              << << LuaNode(<< "t1" >>, << << "return", LuaNil >> >>) >> >>)),
     File("lua", LuaTable(<< "P" >>, << >>)),
     File("lua", LuaTable(<< "P" >>,
              << << LuaNode(<< >>, << << "return", LuaNil >> >>) >> >>)),
     File("lua", LuaTable(<< "P" >>,
              << << LuaNode(<< "t2" >>, << << "return", LuaNil >> >>),
                    LuaNode(<< "t1" >>, << >>) >> >>)),
     File("lua", LuaTable(<< "P" >>, << << >> >>))}

\* A file that is no .lua file.
OtherFiles ==
    {File("txt", LuaTable(<< "Q" >>,
              << << LuaNode(<< "t1" >>, << << "return", LuaNil >> >>) >> >>))}

\* The number of entries of the plugin directory.
DirLength == 3

Directories ==
    [1..DirLength -> WellFormedFiles \cup MalformedFiles \cup OtherFiles]

\* The application starts: lib.rs has made the registry and the loader and
\* calls load_directory on the plugin directory.
PluginInit ==
    /\ workflow = LinearWorkflow
    /\ recorder = NewRecorder
    /\ state = NewRuntimeState
    /\ variables = [v \in VarNames |-> NoString]
    /\ epc = "spawned"
    /\ result = << >>
    /\ stack = << >>
    /\ startMode = None
    /\ trace = << >>
    /\ call = NoCall
    /\ executors = {}
    /\ files \in Directories
    /\ registry = NewRegistry
    /\ tasks = << Task("load_directory", << >>, "plugins") >>

pluginUnchanged ==
    << workflow, recorder, state, variables, epc, result, stack, startMode, trace, call,
       executors, files >>

\* load_directory in a variant that returns the error of the first file
\* that fails to load.
load_file_first_error_returns ==
    /\ Len(tasks) = 1
    /\ tasks[1].op = "load_directory"
    /\ tasks[1].out = << >>
    /\ LET t == tasks[1]
           parsed == parse_plugin(files[t.i].chunk, t.i)
       IN  IF t.i > Len(files)
           THEN /\ tasks' = << [t EXCEPT !.pc = "returned", !.out = << Ok >>] >>
                /\ UNCHANGED registry
           ELSE IF files[t.i].ext = "lua" /\ parsed.ok
           THEN /\ registry' = register(registry, parsed.value)
                /\ tasks' = << [t EXCEPT !.i = t.i + 1,
                                        !.loaded = Append(t.loaded, parsed.value)] >>
           ELSE IF files[t.i].ext = "lua"
           THEN /\ tasks' = << [t EXCEPT !.pc = "returned",
                                        !.out = << Err(parsed.e) >>] >>
                /\ UNCHANGED registry
           ELSE /\ tasks' = << [t EXCEPT !.i = t.i + 1] >>
                /\ UNCHANGED registry
    /\ UNCHANGED pluginUnchanged

\* PluginLoader::load_directory, one entry of read_dir: load_file on a
\* .lua file (read_to_string, parse_plugin, register), the plugin pushed or
\* the error logged; after the last entry Ok(plugins).
load_file ==
    /\ Len(tasks) = 1
    /\ tasks[1].op = "load_directory"
    /\ tasks[1].out = << >>
    /\ LET t == tasks[1]
           parsed == parse_plugin(files[t.i].chunk, t.i)
       IN  IF t.i > Len(files)
           THEN /\ tasks' = << [t EXCEPT !.pc = "returned", !.out = << Ok >>] >>
                /\ UNCHANGED registry
           ELSE IF files[t.i].ext = "lua" /\ parsed.ok
           THEN /\ registry' = register(registry, parsed.value)
                /\ tasks' = << [t EXCEPT !.i = t.i + 1,
                                        !.loaded = Append(t.loaded, parsed.value)] >>
           ELSE /\ tasks' = << [t EXCEPT !.i = t.i + 1] >>
                /\ UNCHANGED registry
    /\ UNCHANGED pluginUnchanged

\* LuaPluginExecutor::execute from the nodes table on: the execute function
\* of the first node of the type (<< fn >>), or the error.
RECURSIVE find_execute_fn(_, _)
find_execute_fn(list, type) ==
    IF list = << >>
    THEN Err(PluginHandlerNotFound(<< "Node type '", type, "' not found in plugin" >>))
    ELSE IF Head(list).type = << >>
    THEN Err(PluginExecutionError(<< "error converting Lua nil to String" >>))
    ELSE IF Head(list).type[1] # type THEN find_execute_fn(Tail(list), type)
    ELSE IF Head(list).execute = << >>
    THEN Err(PluginExecutionError(<< "error converting Lua nil to function" >>))
    ELSE [ok |-> TRUE, e |-> NoError, value |-> Head(list).execute[1]]

\* check_result in a variant that takes false for success.
check_result_false_ok(v) ==
    CASE v[1] = "String" ->
            Err(PluginExecutionError(
                    IF to_str(v[2]) # << >> THEN to_str(v[2])[1]
                    ELSE << "Unknown error" >>))
      [] OTHER -> Ok

\* LuaPluginExecutor::execute, `match result`: what the value returned by
\* the execute function makes of the call.
check_result(v) ==
    CASE v = LuaBoolean(TRUE) \/ v = LuaNil -> Ok
      [] v = LuaBoolean(FALSE) ->
            Err(PluginExecutionError(<< "Node execution returned false" >>))
      [] v[1] = "String" ->
            Err(PluginExecutionError(
                    IF to_str(v[2]) # << >> THEN to_str(v[2])[1]
                    ELSE << "Unknown error" >>))
      [] OTHER -> Ok

\* LuaPluginExecutor::execute: the function found for the node type and the
\* result of the call.
execute_plugin(reg, dir, type) ==
    LET source == get_plugin_source(reg, reg, type)
        chunk == dir[source[1]].chunk
        found == find_execute_fn(chunk.nodes[1], type)
    IN  IF source = << >>
        THEN [value |-> << >>, out |-> Err(PluginHandlerNotFound(<< type >>))]
        ELSE IF chunk.eval # "table"
        THEN [value |-> << >>,
              out |-> Err(PluginExecutionError(<< "Failed to load plugin" >>))]
        ELSE IF chunk.nodes = << >>
        THEN [value |-> << >>,
              out |-> Err(PluginExecutionError(<< "No nodes table" >>))]
        ELSE IF ~found.ok
        THEN [value |-> << >>, out |-> Err(found.e)]
        ELSE IF found.value = << "error" >>
        THEN [value |-> << >>,
              out |-> Err(PluginExecutionError(<< "Execution failed" >>))]
        ELSE [value |-> << found.value[2] >>, out |-> check_result(found.value[2])]

\* A call of LuaPluginExecutor::execute for a node of one of the plugins'
\* types, once the plugins are loaded.
plugin_execute ==
    /\ Len(tasks) = 1
    /\ tasks[1].out # << >>
    /\ \E type \in PluginNodeTypes :
          LET done == execute_plugin(registry, files, type)
          IN  tasks' = Append(tasks,
                  [Task("execute", << >>, type) EXCEPT
                      !.pc = "returned", !.value = done.value,
                      !.out = << done.out >>])
    /\ UNCHANGED registry
    /\ UNCHANGED pluginUnchanged

PluginNext == load_file \/ plugin_execute

PluginSpec == PluginInit /\ [][PluginNext]_vars

\* ------------------------------------- the registry, one call at a time

\* The plugins the registry's callers register: each name with one or both
\* of the node types, from one of two files.
PluginDefs ==
    {PluginDef(name, types, path) :
        name \in PluginNames,
        types \in {<< "t1" >>, << "t2" >>, << "t1", "t2" >>},
        path \in {1, 2}}

\* A registry nobody has called yet.
RegistryInit ==
    /\ workflow = LinearWorkflow
    /\ recorder = NewRecorder
    /\ state = NewRuntimeState
    /\ variables = [v \in VarNames |-> NoString]
    /\ epc = "spawned"
    /\ result = << >>
    /\ stack = << >>
    /\ startMode = None
    /\ trace = << >>
    /\ call = NoCall
    /\ executors = {}
    /\ files = << >>
    /\ registry = NewRegistry
    /\ tasks = << >>

\* A call of PluginRegistry::register that runs from its first lock to its
\* return before the next call begins; `tasks` keeps the last call.
register_call ==
    /\ \E plugin \in PluginDefs :
          /\ registry' = register(registry, plugin)
          /\ tasks' = << [Task("register", << plugin >>, plugin.name) EXCEPT
                             !.pc = "returned", !.out = << Ok >>] >>
    /\ UNCHANGED pluginUnchanged

\* A call of PluginRegistry::unregister that runs from its first lock to
\* its return before the next call begins.
unregister_call ==
    /\ \E name \in PluginNames :
          /\ registry' = unregister(registry, name)
          /\ tasks' = << [Task("unregister", << >>, name) EXCEPT
                             !.pc = "returned", !.out = << Ok >>] >>
    /\ UNCHANGED pluginUnchanged

RegistryNext == register_call \/ unregister_call

RegistrySpec == RegistryInit /\ [][RegistryNext]_vars

\* --------------------------------------- the registry, concurrent callers

\* The calls made at the same time: two writers, each a register of one of
\* the plugins of file 1 or an unregister, and a reader that asks
\* has_node_type and then get_plugin_source for one node type.  `pc` is
\* the lock the call takes next.
WriterCalls ==
    {[Task("register", << plugin >>, plugin.name) EXCEPT !.pc = "node_to_plugin"] :
        plugin \in {def \in PluginDefs : def.source_path = 1}}
      \cup {[Task("unregister", << >>, name) EXCEPT !.pc = "plugins"] :
               name \in PluginNames}

ReaderCalls ==
    {[Task("read", << >>, type) EXCEPT !.pc = "has_node_type"] :
        type \in PluginNodeTypes}

ConcurrentInit ==
    /\ workflow = LinearWorkflow
    /\ recorder = NewRecorder
    /\ state = NewRuntimeState
    /\ variables = [v \in VarNames |-> NoString]
    /\ epc = "spawned"
    /\ result = << >>
    /\ stack = << >>
    /\ startMode = None
    /\ trace = << >>
    /\ call = NoCall
    /\ executors = {}
    /\ files = << >>
    /\ registry = NewRegistry
    /\ \E w1 \in WriterCalls : \E w2 \in WriterCalls : \E r \in ReaderCalls :
          tasks = << w1, w2, r >>

\* unregister's write guard on `plugins` is a temporary of the `if let`
\* and lives until the end of its block: while another call is inside that
\* block, the lock on `plugins` cannot be taken.
PluginsLocked(k) ==
    \E j \in 1..Len(tasks) :
        /\ j # k
        /\ tasks[j].op = "unregister"
        /\ tasks[j].pc \in {"node_to_plugin", "node_defs"}

\* PluginRegistry::register, the next lock of the call tasks[k] and the
\* write under it.
register_step(k) ==
    /\ tasks[k].op = "register"
    /\ LET t == tasks[k]
           plugin == t.plugin[1]
       IN  CASE t.pc = "node_to_plugin" ->
                  /\ registry' = insert_node_to_plugin(registry, plugin.nodes[t.i],
                                                       plugin.name)
                  /\ tasks' = [tasks EXCEPT ![k].pc = "node_defs"]
             [] t.pc = "node_defs" ->
                  /\ registry' = insert_node_def(registry, plugin.nodes[t.i],
                                                 plugin.name)
                  /\ tasks' = [tasks EXCEPT
                        ![k].i = t.i + 1,
                        ![k].pc = IF t.i < Len(plugin.nodes)
                                  THEN "node_to_plugin" ELSE "plugins"]
             [] t.pc = "plugins" ->
                  /\ ~PluginsLocked(k)
                  /\ registry' = insert_plugin(registry, plugin)
                  /\ tasks' = [tasks EXCEPT ![k].pc = "returned",
                                            ![k].out = << Ok >>]
             [] OTHER -> FALSE
    /\ UNCHANGED pluginUnchanged

\* PluginRegistry::unregister, the next lock of the call tasks[k] and the
\* write under it.
unregister_step(k) ==
    /\ tasks[k].op = "unregister"
    /\ LET t == tasks[k]
       IN  CASE t.pc = "plugins" ->
                  /\ ~PluginsLocked(k)
                  /\ registry' = remove_plugin(registry, t.name)
                  /\ tasks' =
                        IF registry.plugins[t.name] = << >>
                        THEN [tasks EXCEPT ![k].pc = "returned",
                                           ![k].out = << Ok >>]
                        ELSE [tasks EXCEPT ![k].pc = "node_to_plugin",
                                           ![k].plugin = registry.plugins[t.name]]
             [] t.pc = "node_to_plugin" ->
                  /\ registry' = remove_node_to_plugin(registry,
                                                       t.plugin[1].nodes[t.i])
                  /\ tasks' = [tasks EXCEPT ![k].pc = "node_defs"]
             [] t.pc = "node_defs" ->
                  /\ registry' = remove_node_def(registry, t.plugin[1].nodes[t.i])
                  /\ tasks' =
                        IF t.i < Len(t.plugin[1].nodes)
                        THEN [tasks EXCEPT ![k].i = t.i + 1,
                                           ![k].pc = "node_to_plugin"]
                        ELSE [tasks EXCEPT ![k].pc = "returned",
                                           ![k].out = << Ok >>]
             [] OTHER -> FALSE
    /\ UNCHANGED pluginUnchanged

\* A reader's has_node_type(type) and get_plugin_source(type), the next
\* lock of the call tasks[k]: `value` is what has_node_type returned,
\* `loaded` what get_plugin_for_node returned, `out` the source path.
read_step(k) ==
    /\ tasks[k].op = "read"
    /\ LET t == tasks[k]
       IN  CASE t.pc = "has_node_type" ->
                  tasks' = [tasks EXCEPT
                      ![k].value = << has_node_type(registry, t.name) >>,
                      ![k].pc = "get_plugin_for_node"]
             [] t.pc = "get_plugin_for_node" ->
                  tasks' =
                      IF get_plugin_for_node(registry, t.name) = << >>
                      THEN [tasks EXCEPT ![k].pc = "returned",
                                         ![k].out = << << >> >>]
                      ELSE [tasks EXCEPT
                               ![k].loaded = get_plugin_for_node(registry, t.name),
                               ![k].pc = "get_plugin"]
             [] t.pc = "get_plugin" ->
                  /\ ~PluginsLocked(k)
                  /\ tasks' = [tasks EXCEPT
                        ![k].pc = "returned",
                        ![k].out =
                           << IF get_plugin(registry, t.loaded[1]) = << >>
                              THEN << >>
                              ELSE << get_plugin(registry, t.loaded[1])[1].source_path >> >>]
             [] OTHER -> FALSE
    /\ UNCHANGED registry
    /\ UNCHANGED pluginUnchanged

ConcurrentNext ==
    \/ \E k \in 1..Len(tasks) : register_step(k)
    \/ \E k \in 1..Len(tasks) : unregister_step(k)
    \/ \E k \in 1..Len(tasks) : read_step(k)

ConcurrentSpec == ConcurrentInit /\ [][ConcurrentNext]_vars

\* ------------------------------------------- workflow files, in and out

\* A JSON value: null, a string, a number written as an integer or with a
\* fraction.  A key of an object is absent (<< >>) or has a value (<< v >>).
JsonNull == << "null", "", 0 >>
JsonString(str) == << "string", str, 0 >>
JsonNumber(form, n) == << "number", form, n >>

\* The keys of an edge object the file may have, and those of a node.
JsonEdge(id, source, target, sourceHandle, targetHandle) ==
    [id |-> << JsonString(id) >>, source |-> << JsonString(source) >>,
     target |-> << JsonString(target) >>,
     sourceHandle |-> sourceHandle, targetHandle |-> targetHandle,
     source_handle |-> << >>, target_handle |-> << >>]

JsonNode(id, type, x, dataValue, label) ==
    [id |-> << JsonString(id) >>, type |-> << JsonString(type) >>,
     position |-> << [x |-> << x >>, y |-> << JsonNumber("int", 0) >>] >>,
     data |-> << [k |-> dataValue] >>, label |-> label]

\* The workflow files in the external format: a condition node and a log
\* node, and the edge between them.
JsonGraphs ==
    {[id |-> << JsonString("wf") >>, name |-> << JsonString("w") >>,
      nodes |-> << << JsonNode("c", "condition", x, dataValue, label),
                      JsonNode("a", "log", JsonNumber("int", 0), << >>, << >>) >> >>,
      edges |-> << << JsonEdge("e", "c", "a", sourceHandle, targetHandle) >> >>] :
        x \in {JsonNumber("int", 1), JsonNumber("float", 1)},
        dataValue \in {<< >>, << JsonNull >>, << JsonString("v") >>,
                       << JsonNumber("int", 1) >>},
        label \in {<< >>, << JsonString("l") >>},
        sourceHandle \in {<< >>, << JsonString("true") >>},
        targetHandle \in {<< >>, << JsonString("in") >>}}

\* serde's Deserialize of String, f64 and Option<String>: the value of the
\* key the field is named by, << >> when it cannot be read.
de_string(key) ==
    IF key # << >> /\ key[1][1] = "string" THEN << key[1][2] >> ELSE << >>
de_f64(key) ==
    IF key # << >> /\ key[1][1] = "number" THEN << key[1][3] >> ELSE << >>
de_option(key) ==
    IF key = << >> \/ key[1] = JsonNull THEN << None >>
    ELSE IF key[1][1] = "string" THEN << key[1][2] >> ELSE << >>

\* #[derive(Deserialize)] of WorkflowNode and WorkflowEdge: every field is
\* read from the key of its own name (`type` for node_type), the other
\* keys of the object are passed over.
de_node(json) ==
    [id |-> de_string(json.id), node_type |-> de_string(json.type),
     position |-> [x |-> de_f64(json.position[1].x), y |-> de_f64(json.position[1].y)],
     data |-> json.data[1], label |-> de_option(json.label)]
de_edge(json) ==
    [id |-> de_string(json.id), source |-> de_string(json.source),
     target |-> de_string(json.target),
     source_handle |-> de_option(json.source_handle),
     target_handle |-> de_option(json.target_handle)]

\* serde_json::from_str::<Workflow>
deserialize(json) ==
    [id |-> de_string(json.id), name |-> de_string(json.name),
     nodes |-> [i \in 1..Len(json.nodes[1]) |-> de_node(json.nodes[1][i])],
     edges |-> [i \in 1..Len(json.edges[1]) |-> de_edge(json.edges[1][i])]]

\* serde's Serialize of Option<String> and f64.
ser_option(field) == IF field[1] = None THEN JsonNull ELSE JsonString(field[1])
ser_f64(field) == JsonNumber("float", field[1])

\* #[derive(Serialize)] of WorkflowNode and WorkflowEdge.
ser_node(node) ==
    [id |-> << JsonString(node.id[1]) >>, type |-> << JsonString(node.node_type[1]) >>,
     position |-> << [x |-> << ser_f64(node.position.x) >>,
                      y |-> << ser_f64(node.position.y) >>] >>,
     data |-> << node.data >>, label |-> << ser_option(node.label) >>]
ser_edge(edge) ==
    [id |-> << JsonString(edge.id[1]) >>, source |-> << JsonString(edge.source[1]) >>,
     target |-> << JsonString(edge.target[1]) >>,
     sourceHandle |-> << >>, targetHandle |-> << >>,
     source_handle |-> << ser_option(edge.source_handle) >>,
     target_handle |-> << ser_option(edge.target_handle) >>]

\* serde_json::to_string_pretty(&workflow)
serialize(w) ==
    [id |-> << JsonString(w.id[1]) >>, name |-> << JsonString(w.name[1]) >>,
     nodes |-> << [i \in 1..Len(w.nodes) |-> ser_node(w.nodes[i])] >>,
     edges |-> << [i \in 1..Len(w.edges) |-> ser_edge(w.edges[i])] >>]

\* The ids uuid::Uuid::new_v4() gives an imported workflow.
Uuids == {"u1", "u2"}

\* The file to import is on disk; nothing is in the database (`call.out`).
JsonInit ==
    /\ workflow = LinearWorkflow
    /\ recorder = NewRecorder
    /\ state = NewRuntimeState
    /\ variables = [v \in VarNames |-> NoString]
    /\ epc = "spawned"
    /\ result = << >>
    /\ stack = << >>
    /\ startMode = None
    /\ trace = << >>
    /\ call = NoCall
    /\ executors = {}
    /\ files \in {<< json >> : json \in JsonGraphs}
    /\ registry = NewRegistry
    /\ tasks = << >>

jsonUnchanged ==
    << workflow, recorder, state, variables, epc, result, stack, startMode, trace,
       executors, registry, tasks >>

\* import_workflow: the file parsed, a new id given, the workflow saved.
import_workflow ==
    /\ call.fn = "none"
    /\ \E uuid \in Uuids :
          call' = [fn |-> "import_workflow", text |-> << >>, order |-> << >>,
                   out |-> << [deserialize(files[1]) EXCEPT !.id = << uuid >>] >>]
    /\ UNCHANGED files
    /\ UNCHANGED jsonUnchanged

\* export_workflow: the saved workflow loaded, serialized, written to a file.
export_workflow ==
    /\ call.fn = "import_workflow"
    /\ call' = [call EXCEPT !.fn = "export_workflow"]
    /\ files' = Append(files, serialize(call.out[1]))
    /\ UNCHANGED jsonUnchanged

JsonNext == import_workflow \/ export_workflow

JsonSpec == JsonInit /\ [][JsonNext]_vars

\* ------------------------------------------- the table of the executions

\* The workflow ids the host starts executions of, and the number of
\* executions it starts.
WorkflowIds == {WorkflowId, "wf2"}
MaxExecutions == 3

\* An execution: the Executor made by execute_workflow or
\* execute_workflow_debug for the workflow id `name`, with the status of its
\* Runtime (`value`) and its spawned task running or done (`pc`).
Execution(op, id) ==
    [Task(op, << >>, id) EXCEPT !.pc = "running", !.value = << Running >>]

\* The application has started: ExecutorState::new, the table is empty.
\* Here `executors` is the table itself: workflow id -> the execution
\* (its place in `tasks`) the id's entry holds, << >> without entry.
ExecutionsInit ==
    /\ workflow = LinearWorkflow
    /\ recorder = NewRecorder
    /\ state = NewRuntimeState
    /\ variables = [v \in VarNames |-> NoString]
    /\ epc = "spawned"
    /\ result = << >>
    /\ stack = << >>
    /\ startMode = None
    /\ trace = << >>
    /\ call = NoCall
    /\ executors = [id \in WorkflowIds |-> << >>]
    /\ files = << >>
    /\ registry = NewRegistry
    /\ tasks = << >>

executionsUnchanged ==
    << workflow, recorder, state, variables, epc, result, stack, startMode, trace, call,
       files, registry >>

\* execute_workflow and execute_workflow_debug: a new Executor is inserted
\* in the table under the workflow's id and its task is spawned.
execute_workflow ==
    /\ Len(tasks) < MaxExecutions
    /\ \E id \in WorkflowIds :
       \E op \in {"execute_workflow", "execute_workflow_debug"} :
          /\ tasks' = Append(tasks, Execution(op, id))
          /\ executors' = [executors EXCEPT ![id] = << Len(tasks) + 1 >>]
    /\ UNCHANGED executionsUnchanged

\* pause_execution and resume_execution: the Executor found under the id is
\* paused or resumed; Err("Execution not found") without entry.
pause_or_resume_execution ==
    /\ \E id \in WorkflowIds : \E status \in {Paused, Running} :
          /\ executors[id] # << >>
          /\ tasks' = [tasks EXCEPT ![executors[id][1]].value = << status >>]
    /\ UNCHANGED executors
    /\ UNCHANGED executionsUnchanged

\* The spawned task of an execution comes to its end: complete() or fail().
execution_ends ==
    /\ \E k \in 1..Len(tasks) : \E status \in {Completed, Failed} :
          /\ tasks[k].pc = "running"
          /\ tasks' = [tasks EXCEPT ![k].pc = "done", ![k].value = << status >>]
    /\ UNCHANGED executors
    /\ UNCHANGED executionsUnchanged

ExecutionsNext == execute_workflow \/ pause_or_resume_execution \/ execution_ends

ExecutionsSpec == ExecutionsInit /\ [][ExecutionsNext]_vars

\* ------------------------------------------------- the recorder at work

\* The number of calls of start, pause, resume, stop and clear, and the
\* number of input events between two clearings of the session's actions.
MaxCalls == 4
MaxEvents == 2

recorderUnchanged ==
    << workflow, state, variables, epc, result, stack, startMode, trace, call,
       executors, files, registry, tasks >>

RecorderInit ==
    /\ workflow = LinearWorkflow
    /\ recorder = NewRecorder
    /\ state = NewRuntimeState
    /\ variables = [v \in VarNames |-> NoString]
    /\ epc = "spawned"
    /\ result = << >>
    /\ stack = << >>
    /\ startMode = None
    /\ trace = << >>
    /\ call = NoCall
    /\ executors = {}
    /\ files = << >>
    /\ registry = NewRegistry
    /\ tasks = << >>

\* An operation of the Recorder returns r; the clock has moved on.
Returns(rec, r) == [rec EXCEPT !.returned = << r >>, !.now = rec.now + 1]

\* Recorder::start_linux_event_monitor. With xinput to spawn,
\* EventMonitor::new returns the monitor, which replaces the stored one
\* (whose drop kills its xinput); without, its error is returned and the
\* stored monitor stays.
start_linux_event_monitor(rec, xinput) ==
    IF xinput
    THEN Returns([rec EXCEPT !.event_monitor = << NewEventMonitor >>], Ok)
    ELSE Returns(rec, Err("Failed to start xinput"))

\* Recorder::start, with the name given or not and xinput installed or not.
\* The session is written and its lock dropped before the event monitor is
\* made.
RecorderStart(rec, name, xinput) ==
    IF rec.session.state = Recording
    THEN Returns(rec, Err("Recording already in progress"))
    ELSE start_linux_event_monitor(
             [rec EXCEPT !.session =
                             [name |-> IF name = << >> THEN "Recording"
                                       ELSE name[1],
                              state |-> Recording,
                              started_at |-> << rec.now >>,
                              actions |-> << >>,
                              ended_at |-> << >>],
                         !.occurred = << >>],
             xinput)

\* EventMonitor::disable and ::enable on the stored monitor, if there is one.
SetEnabled(monitor, flag) ==
    IF monitor = << >> THEN monitor
    ELSE << [monitor[1] EXCEPT !.enabled = flag] >>

\* Recorder::pause with pause_linux_event_monitor.
RecorderPause(rec) ==
    IF rec.session.state # Recording
    THEN Returns(rec, Err("Not currently recording"))
    ELSE Returns([rec EXCEPT !.session.state = Paused,
                             !.event_monitor = SetEnabled(@, FALSE)], Ok)

\* Recorder::resume with resume_linux_event_monitor.
RecorderResume(rec) ==
    IF rec.session.state # Paused
    THEN Returns(rec, Err("Recording not paused"))
    ELSE Returns([rec EXCEPT !.session.state = Recording,
                             !.event_monitor = SetEnabled(@, TRUE)], Ok)

\* Recorder::stop with stop_linux_event_monitor: the monitor is dropped.
RecorderStop(rec) ==
    IF rec.session.state = Idle
    THEN Returns(rec, Err("No recording in progress"))
    ELSE Returns([rec EXCEPT !.session.state = Idle,
                             !.session.ended_at = << rec.now >>,
                             !.event_monitor = << >>], Ok)

\* The reader thread of a monitor gets a line of xinput that holds an input
\* event. With the flag cleared it breaks out of its loop and ends. With
\* the flag set it calls the callback, which calls tokio::spawn for the
\* task that would push the event to the session: the reader is a
\* std::thread outside the runtime, where tokio::spawn panics, so no task
\* is spawned and the thread is gone.
ReadLine(monitor) ==
    IF monitor.thread # "reading" THEN monitor
    ELSE IF ~monitor.enabled THEN [monitor EXCEPT !.thread = "ended"]
    ELSE [monitor EXCEPT !.thread = "panicked"]

\* start_recording.
start_recording ==
    /\ recorder.now < MaxCalls
    /\ \E name \in {<< >>, << "demo" >>} : \E xinput \in BOOLEAN :
          recorder' = RecorderStart(recorder, name, xinput)
    /\ UNCHANGED recorderUnchanged

\* pause_recording.
pause_recording ==
    /\ recorder.now < MaxCalls
    /\ recorder' = RecorderPause(recorder)
    /\ UNCHANGED recorderUnchanged

\* resume_recording.
resume_recording ==
    /\ recorder.now < MaxCalls
    /\ recorder' = RecorderResume(recorder)
    /\ UNCHANGED recorderUnchanged

\* stop_recording.
stop_recording ==
    /\ recorder.now < MaxCalls
    /\ recorder' = RecorderStop(recorder)
    /\ UNCHANGED recorderUnchanged

\* clear_recording: the Recorder is replaced by Recorder::new(), and the old
\* one is dropped with its monitor.
clear_recording ==
    /\ recorder.now < MaxCalls
    /\ recorder' = Returns([NewRecorder EXCEPT !.now = recorder.now], Ok)
    /\ UNCHANGED recorderUnchanged

\* The user moves the mouse or presses a key: an input event occurs, and
\* xinput, where one runs, writes its lines.
input_event ==
    /\ Len(recorder.occurred) < MaxEvents
    /\ recorder' =
          [recorder EXCEPT
              !.occurred = Append(@, recorder.session.state),
              !.event_monitor =
                  IF @ = << >> THEN @ ELSE << ReadLine(@[1]) >>]
    /\ UNCHANGED recorderUnchanged

RecorderNext ==
    \/ start_recording
    \/ pause_recording
    \/ resume_recording
    \/ stop_recording
    \/ clear_recording
    \/ input_event

RecorderSpec == RecorderInit /\ [][RecorderNext]_vars

\* ------------------------------------------------------------- properties

\* The nodes whose handler or control-flow routine has run, in order.
HandlerRuns == SelectSeq(trace, LAMBDA ev : ev.ev = "node")

\* The walker sits in a wait_for_step that does not return.
Blocked ==
    /\ At("wait_for_step") \/ At("wait_for_step_paused")
    /\ ~wait_for_step(state)

\* C1: in a run started in StepByStep mode the executor blocks before every
\* node's handler until the host calls step() or resume(), one call per
\* node visit, from the first node on: at any time, no more handlers have
\* run than the host has made step()/resume() calls.
C1_StepGatesEveryVisit ==
    startMode = StepByStep => Len(HandlerRuns) <= Releases

\* C2: in a run started in Breakpoint mode in which the host never calls
\* pause(), the executor stops before a node's handler and waits for
\* resume() or step() if and only if the node's id was in the breakpoint
\* set at that visit: a node that hit a breakpoint is dispatched only after
\* a resume()/step() issued since its pause_at_node, and the walker blocks
\* nowhere but behind a pause_at_node.
C2_BreakpointFidelity ==
    (startMode = Breakpoint /\ state.host_logs["Workflow execution paused"] = 0)
        => /\ (At("dispatch") /\ Top.hit) => Releases > Top.released
           /\ Blocked => (At("wait_for_step_paused") /\ Top.hit)

\* C3: terminal states are absorbing: once the status is Completed or
\* Failed, no step changes it.
C3_TerminalAbsorbing ==
    [][state.status \in {Completed, Failed} => state'.status = state.status]_vars

\* The edges of Idle -> Running -> {Paused <-> Running} -> {Completed | Failed}
StatusDiagram ==
    { << Idle, Running >>, << Running, Paused >>, << Paused, Running >>,
      << Running, Completed >>, << Running, Failed >> }

\* C4: every change of the status is an edge of the status diagram.
C4_StatusFollowsDiagram ==
    [][state'.status # state.status
          => << state.status, state'.status >> \in StatusDiagram]_vars

\* C5: failure absorption: once fail(e) has been called (the error field is
\* set), no step visits a node, runs a handler or a tryCatch phase, appends
\* a task log entry or writes a variable; and the step that calls fail(e)
\* leaves the failure log as the last entry the task appended.
C5_FailureAbsorption ==
    [][/\ state.error # NoString
            => /\ trace' = trace
               /\ variables' = variables
               /\ state'.logs = state.logs
               /\ state'.current_node_id = state.current_node_id
               /\ stack' = stack
       /\ (state.error = NoString /\ state'.error # NoString)
            => /\ state'.logs[Len(state'.logs)].msg = "Workflow execution failed"
               /\ stack' = << >>]_vars

\* C5 witness: a failed run that left nodes unvisited, and a host call made
\* after fail(e).
C5_Witness ==
    /\ workflow = LoopWorkflow
    /\ state.error # NoString
    /\ state.status = Running
    /\ Len(HandlerRuns) = 3

\* The invocation on top of the stack is in the try branch of a tryCatch:
\* some caller below it is in the loop over the try nodes.
InTry == \E i \in 1..(Len(stack) - 1) : stack[i].pc = "try"

\* An Err is on its way out of the traversal with no try loop to stop it.
Uncaught == At("return") /\ ~Top.res.ok /\ ~InTry

\* C6: from the moment a handler's error is outside every try branch, no
\* step runs a handler or a tryCatch phase, appends a node's log entry or
\* writes a variable; each return hands the same error to the caller; and
\* the return from the outermost invocation sets the status to Failed and
\* the error field to the error's string.
C6_UncaughtErrorUnwinds ==
    [][Uncaught
         => /\ trace' = trace
            /\ variables' = variables
            /\ state'.current_node_id = state.current_node_id
            /\ IF stack' # << >>
               THEN /\ state'.logs = state.logs
                    /\ Len(stack') <= Len(stack)
                    /\ stack'[Len(stack')].pc = "return"
                    /\ stack'[Len(stack')].res = Top.res
               ELSE /\ state'.status = Failed
                    /\ state'.error = ToString(Top.res.e)
                    /\ result' = << Top.res >>]_vars

\* C6 witness: the count loop's body node failed in the first iteration; the
\* run ended Failed with that error, the second iteration, the done node and
\* the start node's other successor unvisited.
C6_Witness ==
    /\ workflow = LoopWorkflow
    /\ epc = "done"
    /\ state.status = Failed
    /\ state.error = ToString(ReadFileError("x"))
    /\ variables["index"] = Number(0)
    /\ HandlerRuns = << Event("node", "s"), Event("node", "l"),
                        Event("node", "x") >>

\* C7: when the graph has no start node, execute/execute_debug returns
\* InvalidWorkflow, no node is visited, and (the host making no call) the
\* status ends Failed with the error recorded.
C7_NoStartNodeFails ==
    (epc = "done" /\ FindStartNode(workflow) = None /\ HostCalls = 0)
        => /\ ~result[1].ok
           /\ result[1].e.kind = "InvalidWorkflow"
           /\ trace = << >>
           /\ state.status = Failed
           /\ state.error # NoString

\* The edges whose target is no node of the graph.
DanglingEdges(w) ==
    {i \in 1..Len(w.edges) : w.edges[i].target \notin NodeIds(w)}

\* C8: when the run ended after the handler of the source of a dangling edge
\* had succeeded (the traversal reached the edge), the execution returned
\* InvalidWorkflow and the error is recorded.
C8_DanglingEdgeFatal ==
    (/\ epc = "done"
     /\ \E i \in DanglingEdges(workflow) :
           \E j \in 1..Len(trace) :
              trace[j] = Event("node", workflow.edges[i].source))
        => /\ ~result[1].ok
           /\ result[1].e.kind = "InvalidWorkflow"
           /\ state.error # NoString

\* The phases of the tryCatch node `id` that have begun, in order.
Phases(id) ==
    LET evs == SelectSeq(trace, LAMBDA ev :
                   ev.node = id /\ ev.ev \in {"try", "catch", "finally"})
    IN  [i \in 1..Len(evs) |-> evs[i].ev]

\* C9: when a tryCatch node with maxRetries = N whose every attempt failed
\* (its catch phase began) returns, its phases were N+1 times try, then
\* catch once, then finally once.
C9_RetryThenCatchThenFinally ==
    (At("return") /\ TopNode.type = "tryCatch"
        /\ \E i \in 1..Len(Phases(Top.node)) : Phases(Top.node)[i] = "catch")
        => Phases(Top.node) =
              [i \in 1..(TopNode.n + 1) |-> "try"] \o << "catch", "finally" >>

\* C10: when a tryCatch node returns, the last phase it ran is finally.
C10_FinallyRunsLast ==
    (At("return") /\ TopNode.type = "tryCatch")
        => /\ Phases(Top.node) # << >>
           /\ Phases(Top.node)[Len(Phases(Top.node))] = "finally"

\* During the run on the always-truthy while loop: every iteration is below
\* the limit, has the index variable at its number and one iteration log per
\* iteration since the loop's start log; the done node runs only after the
\* iteration with index 9999; and the run's end is Ok and Completed, with
\* max_iterations iteration logs between the loop's start log and the done
\* node's.
WhileRunsToLimit ==
    /\ At("while_body")
          => /\ Top.it < max_iterations
             /\ variables["index"] = Number(Top.it)
             /\ state.logs[Len(state.logs) - (Top.it + 1)].msg
                   = "Starting while loop"
    /\ (trace # << >> /\ trace[Len(trace)] = Event("node", "d"))
          => variables["index"] = Number(max_iterations - 1)
    /\ epc = "done"
          => /\ result[1].ok
             /\ state.status = Completed
             /\ trace = << Event("node", "s"), Event("node", "w"),
                           Event("node", "d") >>
             /\ LET first == Len(state.logs) - 3 - max_iterations
                IN  /\ state.logs[first].msg = "Starting while loop"
                    /\ \A i \in 1..max_iterations :
                          state.logs[first + i]
                             = WithNode(Log("While loop iteration"), "w")
                    /\ state.logs[first + max_iterations + 1]
                          = WithNode(Log("Executing node"), "d")

\* C11: a while loop whose condition is truthy at every evaluation goes
\* through its body exactly max_iterations (10000) times, the index variable
\* going through 0..9999, then stops and follows its done edges; the run
\* does not go on forever and does not fail: it ends Completed.
C11_WhileStopsAtLimit ==
    /\ []WhileRunsToLimit
    /\ <>(epc = "done" /\ state.status = Completed
            /\ variables["index"] = Number(max_iterations - 1))

\* C11 witness: the always-truthy while loop is in its third iteration.
C11_Witness ==
    /\ workflow = WhileTrueWorkflow
    /\ At("while_body")
    /\ Top.it = 2
    /\ variables["index"] = Number(2)

\* The number of times the handler of node id has run.
Runs(id) == Len(SelectSeq(trace, LAMBDA ev : ev = Event("node", id)))

\* The place of the first run of node id's handler in the trace (0: none).
FirstRun(id) ==
    LET S == {i \in 1..Len(trace) : trace[i] = Event("node", id)}
    IN  IF S = {} THEN 0 ELSE CHOOSE i \in S : \A j \in S : i <= j

\* The place of the last run of node id's handler in the trace (0: none).
LastRun(id) ==
    LET S == {i \in 1..Len(trace) : trace[i] = Event("node", id)}
    IN  IF S = {} THEN 0 ELSE CHOOSE i \in S : \A j \in S : i >= j

\* C12: a count loop with count = n runs its body subgraph n times, the
\* index variable being i - 1 when the i-th run begins, and follows its done
\* edges once, after the last body run: in the run on the count loop l with
\* body x and done node d, iteration i begins with index = i and i earlier
\* body runs, the done node runs only after n body runs, and a loop that
\* returns Ok has run its body n times and its done node once.
C12_CountLoopRunsBodyNTimes ==
    workflow = LoopWorkflow
        => /\ (At("loop_body") /\ Top.k = 1)
                 => /\ Top.it < TopNode.n
                    /\ variables["index"] = Number(Top.it)
                    /\ Runs("x") = Top.it
           /\ Runs("x") <= FindNode(workflow, "l").n
           /\ Runs("d") <= 1
           /\ Runs("d") = 1
                 => /\ Runs("x") = FindNode(workflow, "l").n
                    /\ LastRun("x") < FirstRun("d")
           /\ (At("return") /\ Top.node = "l" /\ Top.res.ok)
                 => /\ Runs("x") = TopNode.n
                    /\ Runs("d") = 1
                    /\ variables["index"] = Number(TopNode.n - 1)

\* C12 witness: the count loop has returned Ok after LoopCount body runs and
\* its done node.
C12_Witness ==
    /\ workflow = LoopWorkflow
    /\ At("return")
    /\ Top.node = "l"
    /\ Top.res.ok
    /\ Runs("x") = LoopCount
    /\ Runs("d") = 1

\* The workflows whose forEach node e iterates over the list [1, .., ListLength],
\* over a number, and over a variable that was never set.
ForEachListWorkflow == ForEachWorkflow(ListText(ListLength), << "json" >>)

ForEachNumberWorkflow == ForEachWorkflow(<< "1" >>, << "number" >>)

ForEachNoListWorkflows == {ForEachNumberWorkflow, ForEachMissingWorkflow}

\* The items of the list [1, .., ListLength] as variable values.
ListItems == [i \in 1..ListLength |-> Number(i)]

\* C13: a forEach over a list of k items runs its body k times, the i-th run
\* with the index variable i (from 0) and the item variable the i-th item,
\* then its done edges once; over a missing or non-list variable it runs the
\* body zero times, logs a Warn entry and still follows done without failing.
C13_ForEachCoversEachItem ==
    /\ workflow = ForEachListWorkflow
          => /\ (At("foreach_body") /\ Top.k = 1)
                   => /\ Top.items = ListItems
                      /\ Top.it < ListLength
                      /\ variables["index"] = Number(Top.it)
                      /\ variables["item"] = ListItems[Top.it + 1]
                      /\ Runs("a") = Top.it
             /\ Runs("a") <= ListLength
             /\ Runs("d") <= 1
             /\ Runs("d") = 1
                   => /\ Runs("a") = ListLength
                      /\ LastRun("a") < FirstRun("d")
             /\ (At("return") /\ Top.node = "e")
                   => /\ Top.res.ok
                      /\ Runs("a") = ListLength
                      /\ Runs("d") = 1
    /\ workflow \in ForEachNoListWorkflows
          => /\ Runs("a") = 0
             /\ Runs("d") <= 1
             /\ (At("foreach_done") /\ Top.k = 1)
                   => state.logs[Len(state.logs)] =
                          WithNode(Warn("Variable is not a list or not found"), "e")
             /\ (At("return") /\ Top.node = "e")
                   => /\ Top.res.ok
                      /\ Runs("d") = 1
                      /\ \E i \in 1..Len(state.logs) :
                            /\ state.logs[i].level = "Warn"
                            /\ state.logs[i].node = "e"

\* C13 witness: the forEach over [1, .., ListLength] is about to run its body
\* for the last item.
C13_Witness ==
    /\ workflow = ForEachListWorkflow
    /\ At("foreach_body")
    /\ Top.k = 1
    /\ Top.it = ListLength - 1
    /\ variables["item"] = Number(ListLength)
    /\ Runs("a") = ListLength - 1

\* The operator strings evaluate_condition knows, and one it does not.
Operators ==
    {<< "==" >>, << "!=" >>, << ">" >>, << "<" >>, << ">=" >>, << "<=" >>,
     << "contains" >>, << "isEmpty" >>, << "isNotEmpty" >>, << "matches" >>}

\* Operand strings: empty, numbers, text, text that holds other text.
Operands ==
    {<< >>, << "1" >>, << "2" >>, << "1", "0" >>, << "x" >>, << "y" >>,
     << "x", "y" >>, << "x", " ", "1" >>}

\* The workflows whose condition node q compares two literal operands.
LessThanWorkflow == ConditionWorkflow(<< "<" >>, << "2" >>, << "1", "0" >>)

ContainsWorkflow == ConditionWorkflow(<< "contains" >>, << "x" >>, << "y" >>)

\* The edges leaving node id.
OutEdges(id) ==
    {workflow.edges[i] : i \in {j \in 1..Len(workflow.edges) :
                                   workflow.edges[j].source = id}}

\* The ids of the nodes whose handler has run after the first run of node id.
RunsAfter(id) ==
    LET ids == [i \in 1..Len(HandlerRuns) |-> HandlerRuns[i].node]
        S == {i \in 1..Len(ids) : ids[i] = id}
    IN  IF S = {} THEN << >>
        ELSE SubSeq(ids, (CHOOSE i \in S : \A j \in S : i <= j) + 1, Len(ids))

\* C14: a condition node evaluates to one of true and false for every
\* operator string and pair of operands, and then follows the edges whose
\* handle is that result, in declaration order, and no other edge of the
\* node: the targets of its edges with the other handle or with no handle
\* are not run.
C14_ConditionFollowsResultHandle ==
    /\ At("condition_nodes")
          => /\ Top.branch \in {"true", "false"}
             /\ \A op \in Operators : \A left \in Operands : \A right \in Operands :
                   evaluate_condition(op, left, right) \in BOOLEAN
             /\ workflow = LessThanWorkflow => Top.branch = "true"
             /\ workflow = ContainsWorkflow => Top.branch = "false"
             /\ \A e \in OutEdges(Top.node) :
                   e.handle # Top.branch => Runs(e.target) = 0
             /\ RunsAfter(Top.node) =
                   SubSeq(FindNextNodesByHandle(workflow, Top.node, Top.branch),
                          1, Top.k - 1)
    /\ (At("return") /\ TopNode.type = "condition")
          => /\ Top.res.ok
             /\ RunsAfter(Top.node) =
                   FindNextNodesByHandle(workflow, Top.node, Top.branch)
             /\ \A e \in OutEdges(Top.node) :
                   Runs(e.target) = IF e.handle = Top.branch THEN 1 ELSE 0

\* C14 witness: the condition 2 < 10 has come out true and the two nodes on
\* its true edges have run, the nodes on its false and handle-less edges not.
C14_Witness ==
    /\ workflow = LessThanWorkflow
    /\ At("return")
    /\ Top.node = "q"
    /\ Top.branch = "true"
    /\ RunsAfter("q") = << "a", "d" >>
    /\ Runs("b") = 0
    /\ Runs("c") = 0

\* The depth-first pre-order of the nodes reached from node id over
\* find_next_nodes, and of the nodes reached from a list of siblings.
RECURSIVE PreOrderFrom(_, _), PreOrderOfAll(_, _)
PreOrderFrom(w, id) == << id >> \o PreOrderOfAll(w, FindNextNodes(w, id))

PreOrderOfAll(w, list) ==
    IF list = << >> THEN << >>
    ELSE PreOrderFrom(w, Head(list)) \o PreOrderOfAll(w, Tail(list))

\* The depth-first pre-order of a workflow from its start node.
PreOrder(w) ==
    IF FindStartNode(w) = None THEN << >> ELSE PreOrderFrom(w, FindStartNode(w))

\* The workflows that have no control-flow node.
PlainWorkflows ==
    {w \in Workflows :
        \A i \in 1..Len(w.nodes) : w.nodes[i].type \notin ControlFlowTypes}

IsPrefix(p, q) == Len(p) <= Len(q) /\ p = SubSeq(q, 1, Len(p))

\* The node ids of the handler runs, in order.
RunIds == [i \in 1..Len(HandlerRuns) |-> HandlerRuns[i].node]

\* The node ids the task's log entries are tagged with, in order, a run of
\* entries of one node counted once.
LogNodeIds ==
    LET tagged == SelectSeq(state.logs, LAMBDA l : l.node # None)
        ids == [i \in 1..Len(tagged) |-> tagged[i].node]
        first == {i \in 1..Len(ids) : i = 1 \/ ids[i] # ids[i - 1]}
        nth(n) == CHOOSE i \in first : Cardinality({j \in first : j <= i}) = n
    IN  [n \in 1..Cardinality(first) |-> ids[nth(n)]]

\* C15: within one run the nodes are visited, and their log entries and
\* variable writes made, in depth-first pre-order from the start node, the
\* sibling edges in the order of the edge list: the handler runs and the
\* nodes of the log entries are a prefix of the pre-order, the whole of it
\* when the run completes, and in the chain of setVariable nodes v1, v2, v3 a
\* later node's variable is written only after an earlier node's.
C15_DepthFirstPreOrder ==
    /\ workflow \in PlainWorkflows
          => /\ IsPrefix(RunIds, PreOrder(workflow))
             /\ IsPrefix(LogNodeIds, PreOrder(workflow))
             /\ Len(RunIds) <= Len(LogNodeIds)
             /\ Len(LogNodeIds) <= Len(RunIds) + 1
             /\ (epc = "done" /\ state.status = Completed)
                   => /\ RunIds = PreOrder(workflow)
                      /\ LogNodeIds = PreOrder(workflow)
    /\ workflow = InterpolateWorkflow
          => /\ IsPrefix(RunIds, << "s", "v1", "v2", "v3", "q", "a" >>)
                \/ IsPrefix(RunIds, << "s", "v1", "v2", "v3", "q", "b" >>)
             /\ variables["c"] # NoString => variables["b"] # NoString
             /\ variables["b"] # NoString => variables["a"] # NoString
             /\ variables["a"] # NoString <=> Runs("v1") = 1
             /\ variables["b"] # NoString <=> Runs("v2") = 1
             /\ variables["c"] # NoString <=> Runs("v3") = 1

\* C15 witness: in the graph s -> a, s -> b, a -> c the run has completed
\* with the nodes visited in the order s, a, c, b.
C15_Witness ==
    /\ workflow = BranchWorkflow
    /\ epc = "done"
    /\ state.status = Completed
    /\ RunIds = << "s", "a", "c", "b" >>
    /\ LogNodeIds = << "s", "a", "c", "b" >>

\* The orders in which the store's map can be gone through in this state.
Orders == IterationOrders(Names(variables))

\* C16: two executions of a graph without external side effects from the
\* same initial variables log the same node ids and end with the same
\* variables: two executions that have reached the same state go on alike,
\* so the value a setVariable node writes, the branch a condition node takes
\* and the outcome of a while condition are the same in both, whatever each
\* execution's map does.
C16_TraversalDeterministic ==
    /\ (At("dispatch") /\ TopNode.type = "setVariable")
          => \A o1 \in Orders : \A o2 \in Orders :
                SetVariableValue(TopNode, variables, o1) =
                    SetVariableValue(TopNode, variables, o2)
    /\ (At("dispatch") /\ TopNode.type = "condition")
          => \A o1 \in Orders : \A o2 \in Orders :
                ConditionResult(TopNode, variables, o1) =
                    ConditionResult(TopNode, variables, o2)
    /\ At("while_iteration")
          => \A o1 \in Orders : \A o2 \in Orders :
                evaluate_simple_expression(
                    interpolate(variables, o1, Get(TopNode, "condition", << "false" >>))) =
                evaluate_simple_expression(
                    interpolate(variables, o2, Get(TopNode, "condition", << "false" >>)))

\* The text a single left-to-right pass over `text` leaves: each token of a
\* variable of the store is replaced by the variable's display string, and
\* what was put in is not looked at again.
RECURSIVE SinglePass(_, _)
SinglePass(vs, text) ==
    IF text = << >> THEN << >>
    ELSE LET S == {name \in Names(vs) : MatchesAt(text, Placeholder(name), 1)}
         IN  IF S # {}
             THEN LET name == CHOOSE name \in S : TRUE
                  IN  to_string_value(vs[name]) \o
                      SinglePass(vs, SubSeq(text, Len(Placeholder(name)) + 1,
                                            Len(text)))
             ELSE << Head(text) >> \o SinglePass(vs, Tail(text))

\* C17: interpolation is a single pass without recursive expansion, whatever
\* the order the store's variables are gone through: what interpolate
\* returns is the text with each of its own tokens replaced once, and a token
\* that came in with a variable's display string is still there.
C17_InterpolateSinglePass ==
    call.fn = "returned" => call.out = SinglePass(variables, call.text)

\* C18: for every variable v of the store, interpolate("${v}") is v's display
\* string, also when that string holds the token of another variable of the
\* store, and the token of a name the store does not hold is returned as it
\* is.
C18_InterpolateReturnsDisplayString ==
    call.fn = "returned"
        => \A name \in VarNames :
              call.text = Placeholder(name)
                 => call.out = IF name \in Names(variables)
                               THEN to_string_value(variables[name])
                               ELSE Placeholder(name)

\* The node types execute_node and execute_from_node have an arm for.
BuiltInTypes ==
    {"start", "end", "click", "input", "getText", "delay", "log",
     "setVariable", "readFile", "writeFile", "waitElement", "hotkey",
     "screenshot", "openBrowser", "navigate", "webClick", "webInput",
     "webGetText", "closeBrowser", "executeJs", "readExcel", "writeExcel",
     "executeCommand", "listDirectory", "openApp"} \cup ControlFlowTypes

\* The nodes of the workflow whose type is a plugin's, and those whose type
\* is neither built in nor a plugin's.
PluginNodes ==
    {id \in NodeIds(workflow) :
        FindNode(workflow, id).type \in RegisteredNodeTypes \ BuiltInTypes}

UnknownNodes ==
    {id \in NodeIds(workflow) :
        FindNode(workflow, id).type \notin RegisteredNodeTypes \cup BuiltInTypes}

\* C19: a node whose type is not built in but registered in the Plugin
\* Registry is handed to the Script Executor and not treated as an unknown
\* type: no "Unknown node type" entry is logged for it.
C19_RegisteredTypeNotUnknown ==
    \A i \in 1..Len(state.logs) :
        state.logs[i].msg = "Unknown node type"
            => state.logs[i].node \notin PluginNodes

\* C20: a node whose type is neither built in nor registered is not fatal:
\* its visit leaves a log entry tagged with its id and returns no error, the
\* traversal goes on with the node's outgoing edges, and the run ends
\* Completed.
C20_UnknownTypeNonFatal ==
    /\ (At("next_nodes") /\ Top.node \in UnknownNodes)
          => /\ \E i \in 1..Len(state.logs) :
                   state.logs[i] = WithNode(Log("Unknown node type"), Top.node)
             /\ Top.k = 1 =>
                   state.logs[Len(state.logs)] =
                       WithNode(Log("Unknown node type"), Top.node)
    /\ (At("return") /\ Top.node \in UnknownNodes)
          => /\ Top.res.ok
             /\ RunsAfter(Top.node) = PreOrderOfAll(workflow, FindNextNodes(workflow, Top.node))
    /\ workflow = PluginWorkflow
          => /\ state.status # Failed
             /\ state.error = NoString
             /\ epc = "done"
                   => /\ result[1].ok
                      /\ RunIds = << "s", "u", "p", "b" >>
                      /\ state.logs[Len(state.logs)].msg =
                            "Workflow execution completed"

\* C20 witness: the run over the node u of an unknown type has ended
\* Completed, with u's log entry and the nodes after u visited.
C20_Witness ==
    /\ workflow = PluginWorkflow
    /\ "u" \in UnknownNodes
    /\ epc = "done"
    /\ state.status = Completed
    /\ result = << Ok >>
    /\ \E i \in 1..Len(state.logs) :
          state.logs[i] = WithNode(Log("Unknown node type"), "u")
    /\ RunsAfter("u") = << "p", "b" >>

\* The calls of LuaPluginExecutor::execute in which the plugin's execute
\* function returned the value v.
Returned(v) ==
    {i \in 1..Len(tasks) : tasks[i].op = "execute" /\ tasks[i].value = << v >>}

\* C21: the value a plugin's execute function returns decides the result of
\* the node: true and nil are success, false is an error with the generic
\* message, and a string is an error whose message is that string.
C21_ReturnValueDecidesResult ==
    /\ \A i \in Returned(LuaBoolean(TRUE)) \cup Returned(LuaNil) :
          tasks[i].out = << Ok >>
    /\ \A i \in Returned(LuaBoolean(FALSE)) :
          tasks[i].out =
              << Err(PluginExecutionError(<< "Node execution returned false" >>)) >>
    /\ \A i \in 1..Len(tasks) :
          (tasks[i].value # << >> /\ tasks[i].value[1][1] = "String")
             => tasks[i].out =
                    << Err(PluginExecutionError(tasks[i].value[1][2])) >>

\* C21, amended: true and nil are success, false is an error with the
\* generic message, a string that is valid UTF-8 is an error whose message
\* is that string, and a string that is not is an error with the message
\* "Unknown error"; any other value is success.
C21_ReturnValueDecidesResultUtf8 ==
    /\ \A i \in Returned(LuaBoolean(TRUE)) \cup Returned(LuaNil) :
          tasks[i].out = << Ok >>
    /\ \A i \in Returned(LuaBoolean(FALSE)) :
          tasks[i].out =
              << Err(PluginExecutionError(<< "Node execution returned false" >>)) >>
    /\ \A i \in 1..Len(tasks) :
          (tasks[i].value # << >> /\ tasks[i].value[1][1] = "String")
             => LET bytes == tasks[i].value[1][2]
                IN  tasks[i].out =
                       << Err(PluginExecutionError(
                              IF \A j \in 1..Len(bytes) : bytes[j] # "\\xFF"
                              THEN bytes ELSE << "Unknown error" >>)) >>
    /\ \A i \in Returned(LuaNumber(1)) : tasks[i].out = << Ok >>

\* C21 witness: calls of execute have returned for a plugin whose function
\* returned a string that is no UTF-8 text.
C21_Witness ==
    \E i \in Returned(LuaString(<< "bo", "\\xFF" >>)) :
        /\ tasks[i].pc = "returned"
        /\ ~tasks[i].out[1].ok
        /\ tasks[i].out[1].e.msg = << "Unknown error" >>

\* C22: after unregister(P) has returned, whatever register and unregister
\* calls came before it, no node type maps to P in node_to_plugin and no
\* definition of a type of P is left in node_defs.
C22_UnregisterRemovesAllTypes ==
    (tasks # << >> /\ tasks[1].op = "unregister")
        => \A type \in PluginNodeTypes :
              /\ registry.node_to_plugin[type] # << tasks[1].name >>
              /\ registry.node_defs[type] # << PluginNodeDef(type, tasks[1].name) >>

\* The registry a call leaves when it runs on its own on the registry reg.
AfterCall(reg, t) ==
    IF t.op = "register" THEN register(reg, t.plugin[1])
    ELSE IF t.op = "unregister" THEN unregister(reg, t.name)
    ELSE reg

\* The registries the two writers leave when one runs after the other.
SequentialOutcomes ==
    {AfterCall(AfterCall(NewRegistry, tasks[1]), tasks[2]),
     AfterCall(AfterCall(NewRegistry, tasks[2]), tasks[1])}

AllReturned == \A k \in 1..Len(tasks) : tasks[k].pc = "returned"

\* The reader has seen has_node_type true and then no source for the type.
ReaderSawTypeWithoutSource ==
    \E k \in 1..Len(tasks) :
        /\ tasks[k].op = "read"
        /\ tasks[k].pc = "returned"
        /\ tasks[k].value = << TRUE >>
        /\ tasks[k].out = << << >> >>

\* C23: concurrent register and unregister calls leave the three maps as
\* some sequential order of the same calls would, and no reader sees a node
\* type for which has_node_type is true and get_plugin_source is none.
C23_RegistryLinearizable ==
    /\ AllReturned => registry \in SequentialOutcomes
    /\ ~ReaderSawTypeWithoutSource

\* The file is registered: its plugin is in `plugins` with the file's path
\* as source, and its node type is in both node maps under its name.
Registered(reg, file, path) ==
    LET name == file.chunk.name[1]
        type == file.chunk.nodes[1][1].type[1]
    IN  /\ get_plugin(reg, name) = << PluginDef(name, << type >>, path) >>
        /\ get_plugin_for_node(reg, type) = << name >>
        /\ reg.node_defs[type] = << PluginNodeDef(type, name) >>

\* The last file of the directory that defines the plugin of file i.
LastOfName(i) ==
    \A j \in (i + 1)..Len(files) :
        files[j] \in WellFormedFiles => files[j].chunk.name # files[i].chunk.name

\* C24: load_directory skips a malformed plugin file and leaves the
\* registry as it was, and registers every well-formed .lua file of the
\* directory, however many malformed files come before it.
C24_MalformedPluginsSkipped ==
    [][(tasks[1].op = "load_directory" /\ tasks[1].out = << >>) =>
          /\ (tasks[1].i <= Len(files) /\ files[tasks[1].i] \in MalformedFiles)
                => /\ registry' = registry
                   /\ tasks'[1].out = << >>
          /\ (tasks[1].i <= Len(files) /\ files[tasks[1].i] \in WellFormedFiles)
                => Registered(registry', files[tasks[1].i], tasks[1].i)
          /\ tasks'[1].pc = "returned"
                => \A i \in 1..Len(files) :
                      (files[i] \in WellFormedFiles /\ LastOfName(i))
                          => Registered(registry', files[i], i)]_vars

C24_Witness ==
    /\ tasks[1].op = "load_directory"
    /\ tasks[1].pc = "returned"
    /\ files[1] \in MalformedFiles
    /\ files[2] \in MalformedFiles
    /\ files[3] \in WellFormedFiles
    /\ Registered(registry, files[3], 3)
    /\ Len(tasks[1].loaded) = 1

\* The task waits in wait_for_step with the run paused and no step pending.
WaitingPaused ==
    /\ At("wait_for_step") \/ At("wait_for_step_paused")
    /\ ~wait_for_step(state)

\* C25: once stop_execution has removed the Executor from the table, the
\* task starts no node visit after the one in flight, and a task that waits
\* paused stops waiting and ends.
C25_StopCancelsTask ==
    /\ [][executors = {} => Len(stack') <= Len(stack)]_vars
    /\ (executors = {} /\ WaitingPaused) ~> (epc = "done")

\* Two keys of a JSON object say the same: both absent or null, or the
\* same string, or numbers of the same value.
SameKey(k1, k2) ==
    IF k1 = << >> \/ k1[1] = JsonNull THEN k2 = << >> \/ k2[1] = JsonNull
    ELSE /\ k2 # << >>
         /\ k2[1][1] = k1[1][1]
         /\ IF k1[1][1] = "number" THEN k2[1][3] = k1[1][3] ELSE k2[1][2] = k1[1][2]

SameNode(n1, n2) ==
    /\ SameKey(n1.id, n2.id)
    /\ SameKey(n1.type, n2.type)
    /\ SameKey(n1.position[1].x, n2.position[1].x)
    /\ SameKey(n1.position[1].y, n2.position[1].y)
    /\ n1.data = n2.data
    /\ SameKey(n1.label, n2.label)

SameEdge(e1, e2) ==
    /\ SameKey(e1.id, e2.id)
    /\ SameKey(e1.source, e2.source)
    /\ SameKey(e1.target, e2.target)
    /\ SameKey(e1.sourceHandle, e2.sourceHandle)
    /\ SameKey(e1.targetHandle, e2.targetHandle)

\* C26: a workflow file that is imported and then exported comes out with
\* the nodes and edges it had: every data value, and the sourceHandle and
\* targetHandle of every edge, are those of the file that was read.
C26_GraphRoundTrip ==
    Len(files) = 2 =>
        /\ Len(files[2].nodes[1]) = Len(files[1].nodes[1])
        /\ \A i \in 1..Len(files[1].nodes[1]) :
              SameNode(files[1].nodes[1][i], files[2].nodes[1][i])
        /\ Len(files[2].edges[1]) = Len(files[1].edges[1])
        /\ \A i \in 1..Len(files[1].edges[1]) :
              SameEdge(files[1].edges[1][i], files[2].edges[1][i])

\* C27: Paused is reached only through debugging or an explicit pause: in a
\* run started with debug mode None in which the host has not called
\* pause(), the status is not Paused.
C27_PausedOnlyByDebugOrPause ==
    (startMode = ModeNone /\ state.host_logs["Workflow execution paused"] = 0)
        => state.status # Paused

C27_Witness ==
    /\ startMode = ModeNone
    /\ state.host_logs["Workflow execution paused"] = 0
    /\ state.host_logs["Workflow execution resumed"] > 0
    /\ \E id \in state.breakpoints : Runs(id) > 0
    /\ state.status = Completed

\* The tryCatch node t of the run has gone through its catch phase and the
\* node of its finally branch has run.
CaughtAndFinished ==
    /\ \E n \in 0..MaxRetries : workflow = TryWorkflow(n)
    /\ \E i \in 1..Len(Phases("t")) : Phases("t")[i] = "catch"
    /\ Runs("c") = 1
    /\ Runs("y") = 1

\* C28: when every attempt of a tryCatch's try branch has failed, the error
\* variable holds the stringified error of the last attempt before the first
\* catch node runs; and when the catch and finally branches then succeed,
\* the tryCatch node returns Ok, the runtime is not failed, and the run ends
\* Ok with the completion log.
C28_TryErrorContained ==
    /\ (At("catch") /\ Top.k = 1)
          => /\ Top.it = TopNode.n
             /\ Runs("f") = TopNode.n + 1
             /\ Runs("c") = 0
             /\ variables["error"] = String(ToString(ReadFileError("f")))
    /\ (At("return") /\ Top.node = "t" /\ CaughtAndFinished)
          => Top.res = Ok
    /\ CaughtAndFinished
          => /\ state.status # Failed
             /\ state.error = NoString
             /\ epc = "done"
                   => /\ result = << Ok >>
                      /\ state.logs[Len(state.logs)].msg = "Workflow execution completed"

C28_Witness ==
    /\ workflow = TryWorkflow(MaxRetries)
    /\ CaughtAndFinished
    /\ Runs("f") = MaxRetries + 1
    /\ variables["error"] = String(ToString(ReadFileError("f")))
    /\ epc = "done"
    /\ state.status = Completed
    /\ result = << Ok >>

\* The targets of the plain edges (no sourceHandle) that leave the node, in
\* declaration order.
PlainTargets(w, id) ==
    FilterMapFindNode(w,
        Targets(SelectSeq(w.edges, LAMBDA e : e.source = id /\ e.handle = None)))

\* The nodes reached by an edge with a sourceHandle that leaves a node
\* which is no control-flow node, and by no other edge.
HandleOnlyTargets(w) ==
    {e.target : e \in {w.edges[i] : i \in 1..Len(w.edges)}}
        \ {w.edges[i].target : i \in
              {j \in 1..Len(w.edges) :
                  \/ w.edges[j].handle = None
                  \/ w.edges[j].source \notin NodeIds(w)
                  \/ FindNode(w, w.edges[j].source).type \in ControlFlowTypes}}

\* The plain targets of the node have run, each after the one declared
\* before it.
PlainTargetsInOrder(w, id) ==
    LET plain == PlainTargets(w, id)
    IN  \A i \in 1..Len(plain) :
           /\ Runs(plain[i]) > 0
           /\ \A j \in 1..(i - 1) : LastRun(plain[j]) < LastRun(plain[i])

\* C29: after the handler of a node that is no control-flow node, the
\* executor follows the node's plain outgoing edges only, in declaration
\* order: an edge with a sourceHandle is not followed.
C29_PlainEdgesOnly ==
    /\ \A id \in HandleOnlyTargets(workflow) : Runs(id) = 0
    /\ (At("return") /\ Top.res.ok /\ TopNode.type \notin ControlFlowTypes
            /\ Runs(Top.node) > 0)
          => PlainTargetsInOrder(workflow, Top.node)

\* The number of times the edges that enter the node have been traversed:
\* each edge once for every run of the handler of its source.
IncomingTraversals(w, id) ==
    LET into == {i \in 1..Len(w.edges) :
                    w.edges[i].target = id /\ w.edges[i].source \in NodeIds(w)}
    IN  Sum([i \in into |-> Runs(w.edges[i].source)], into)

\* C30: there is no join and no visited set: in a workflow without
\* control-flow nodes, a node reached over m traversed incoming edges has
\* had its handler run m times when the run ends, and never more often
\* during the run; the bottom of the diamond runs twice.
C30_NoJoinSemantics ==
    /\ workflow \in PlainWorkflows
          => \A id \in NodeIds(workflow) \ {FindStartNode(workflow)} :
                /\ Runs(id) <= IncomingTraversals(workflow, id)
                /\ (epc = "done" /\ result = << Ok >>)
                      => Runs(id) = IncomingTraversals(workflow, id)
    /\ (workflow = DiamondWorkflow /\ epc = "done") => Runs("d") = 2

C30_Witness ==
    /\ workflow = DiamondWorkflow
    /\ epc = "done"
    /\ result = << Ok >>
    /\ RunIds = << "s", "a", "d", "b", "d" >>
    /\ IncomingTraversals(workflow, "d") = 2

\* C31: every graph traversal terminates: whatever the graph, a cycle of
\* plain edges and a loop body that leads back to its loop node included,
\* the run without debug pauses comes to its end.
C31_TraversalTerminates == <>(epc = "done")

\* C32: the debug mode is cleared on terminal: whenever the status is
\* Completed or Failed the debug mode is None, whatever mode the run was
\* started in.
C32_ModeClearedOnTerminal ==
    state.status \in {Completed, Failed} => state.mode = ModeNone

C32_Witness ==
    /\ startMode \in {StepByStep, Breakpoint}
    /\ state.status = Completed
    /\ state.mode = ModeNone
    /\ epc = "done"

\* The run is held by the host's pause(): the status is Paused and no debug
\* pause has set the paused-node marker.
ExplicitlyPaused == state.status = Paused /\ state.paused_at_node = None

\* C33: an explicit pause holds the execution: while the run is paused by
\* the host's pause() and neither resume() nor step() has been called, the
\* executor's wait before a node visit does not return, so no new node
\* visit begins, whatever calls were made before and whatever the debug
\* mode of the run.
C33_ExplicitPauseHolds ==
    [][(ExplicitlyPaused /\ At("wait_for_step"))
          => ~(stack' # << >> /\ stack'[Len(stack')].pc = "get_status_again")]_vars

\* C34: the paused-node marker is present only while paused: when the
\* status is Idle, Running, Completed or Failed the marker is absent, and
\* while the run is Paused with the marker set (a debug pause) the marker is
\* the id of the current node.
C34_PausedMarkerOnlyWhilePaused ==
    /\ state.status # Paused => state.paused_at_node = None
    /\ (state.status = Paused /\ state.paused_at_node # None)
          => state.paused_at_node = state.current_node_id

\* The plugins of the registry that declare the node type.
Declaring(reg, type) ==
    {name \in PluginNames :
        /\ reg.plugins[name] # << >>
        /\ \E i \in 1..Len(reg.plugins[name][1].nodes) :
              reg.plugins[name][1].nodes[i] = type}

\* C35: after any sequence of completed register and unregister calls, a
\* node type is mapped (has_node_type true, its definition present) if and
\* only if a registered plugin declares it, and it then resolves to a
\* registered plugin that declares it.
C35_MapsAgreeWithPlugins ==
    \A type \in PluginNodeTypes :
        /\ has_node_type(registry, type) <=> Declaring(registry, type) # {}
        /\ registry.node_defs[type] # << >> <=> Declaring(registry, type) # {}
        /\ has_node_type(registry, type)
              => get_plugin_for_node(registry, type)[1] \in Declaring(registry, type)

\* C36: a forEach node goes through the list it read when it was entered:
\* the body's writes to the list variable and to the item variable change
\* neither the number of iterations nor the item of a later iteration.
C36_ForEachIteratesSnapshot ==
    workflow = ForEachOverwriteWorkflow(ListLength)
        => /\ (At("foreach_body") /\ Top.k = 1)
                 => /\ Top.it < ListLength
                    /\ Runs("w") = Top.it
                    /\ Runs("u") = Top.it
                    /\ variables["index"] = Number(Top.it)
                    /\ variables["item"] = ListItems[Top.it + 1]
           /\ Runs("w") > 0 => variables["list"] = List(<< >>)
           /\ Runs("a") <= ListLength
           /\ Runs("d") = 1
                 => /\ Runs("w") = ListLength
                    /\ Runs("a") = ListLength
                    /\ variables["item"] = String(<< "x" >>)

C36_Witness ==
    /\ workflow = ForEachOverwriteWorkflow(ListLength)
    /\ At("foreach_body")
    /\ Top.k = 1
    /\ Top.it = ListLength - 1
    /\ Runs("u") = ListLength - 1
    /\ variables["list"] = List(<< >>)
    /\ variables["item"] = Number(ListLength)

\* C37: step() has an effect only on a paused run: when the status is Idle,
\* Running, Completed or Failed a step() call leaves the whole runtime state
\* as it is, so the step latch is set only by start_debug(StepByStep) or by
\* a step() made while the run was paused (which leaves its log entry).
C37_StepOnlyWhenPaused ==
    /\ state.status # Paused => step(state) = state
    /\ state.step_pending
          => startMode = StepByStep \/ state.host_logs["Step execution"] > 0
    /\ state.host_logs["Step execution"] > 0
          => state.host_logs["Workflow execution paused"] > 0
                \/ startMode \in {StepByStep, Breakpoint}

\* C37 witness: in Breakpoint mode the executor is about to reach its pause
\* at a node with a breakpoint, the run is Running, and step_execution can be
\* called and changes nothing.
C37_Witness ==
    /\ startMode = Breakpoint
    /\ state.status = Running
    /\ At("should_pause_at_node")
    /\ Top.node \in state.breakpoints
    /\ ~state.step_pending
    /\ ENABLED step_execution
    /\ step(state) = state

\* C38: every execution that is still running is addressable by its
\* workflow id: the table's entry of the id is that execution, so the
\* host's commands for the id reach it.
C38_RunningExecutionsAddressable ==
    \A k \in 1..Len(tasks) :
        tasks[k].pc = "running" => executors[tasks[k].name] = << k >>

\* The events that occurred since the session's actions were last cleared
\* and the session has, by their place in `occurred`.
Appended == {recorder.session.actions[i] : i \in 1..Len(recorder.session.actions)}

\* C39: a Recorder operation that returns an error leaves the recording
\* session unchanged (state, actions, started_at, ended_at): whatever
\* operation returns an Err, the session after it is the session before it.
C39_ErrorLeavesSessionUnchanged ==
    [][(recorder'.now # recorder.now /\ ~recorder'.returned[1].ok)
          => recorder'.session = recorder.session]_vars

\* C40: the input events are appended to the session's actions exactly
\* when they occur while the state is Recording, after a pause() followed
\* by a resume() too: each event that occurred since the actions were
\* cleared is among the actions if and only if the state was Recording
\* when it occurred.
C40_EventsAppendedWhileRecording ==
    \A k \in 1..Len(recorder.occurred) :
        recorder.occurred[k] = Recording <=> k \in Appended
====
